---- MODULE Spec2Model ----
(***************************************************************************)
(* Model of the talktollm channel extension: the WebSocket gateway         *)
(* (ws-server.ts), the inbound message handler (ws-handler.ts), the        *)
(* device<->session registry (session-registry.ts) and the agent event     *)
(* listener (second half of ws-server.ts).                                 *)
(*                                                                         *)
(* Time is counted in half minutes: the idempotency TTL is 10 and the      *)
(* sweep period is 2, so that keys are also recorded between two sweeps.   *)
(***************************************************************************)
EXTENDS Integers, Sequences, FiniteSets, TLC

\* ---- bounds of the model -------------------------------------------------
MaxDevices == 2
MaxSessions == 2
MaxConns == 2
MaxClientKeys == 1
MaxUuid == 2
MaxTime == 14
MaxRuns == 1
MaxMsgs == 3
MaxSockets == 1
MaxGatewaySessions == 1
MaxGatewayMsgs == 2
MaxGatewayUuid == 3
MaxPluginConns == 1
MaxRegistryDevices == 3
MaxSends == 2
MaxMappedDevices == 1
MaxListenerRuns == 1
MaxListenerSessions == 1
MaxListenerUuid == 2
MaxLog == 9
MaxPruneRuns == 2
MaxPruneUuid == 3
MaxListeners == 2
MaxFanLog == 4

\* ---- program constants ---------------------------------------------------
IDEMPOTENCY_TTL_MS == 10
SWEEP_INTERVAL == 2
CLOSE_AUTH_TIMEOUT == 4001
CLOSE_EXPECTED_AUTH == 4002
CLOSE_AUTH_FAILED == 4003
CLOSE_DEVICEID_REQUIRED == 4004
CLOSE_REPLACED == 4005
CLOSE_INVALID_JSON == 4006
CLOSE_PEER == 1000
CLOSE_ABNORMAL == 1006
UuidBase == 100

Devices == 1..MaxDevices
Sessions == 1..MaxSessions
Conns == 1..MaxConns
ClientKeys == 1..MaxClientKeys
Uuids == (UuidBase + 1)..(UuidBase + MaxUuid)
AgentRuns == 51..(50 + MaxRuns)
Null == 0
Sockets == 1..MaxSockets
GatewaySessions == 1..MaxGatewaySessions
PluginConns == 1..MaxPluginConns
RegistryDevices == 1..MaxRegistryDevices
\* two sessions: a device can be in several sessions and a session can hold several devices
RegistrySessions == {1, 2}

\* ---- JavaScript Map / Set (insertion ordered) ----------------------------
Range(s) == {s[i] : i \in 1..Len(s)}

EmptyMap == [x \in {} |-> 0]

MapHas(m, k) == k \in DOMAIN m

MapSet(m, k, v) == [x \in (DOMAIN m) \cup {k} |-> IF x = k THEN v ELSE m[x]]

MapDelete(m, k) == [x \in (DOMAIN m) \ {k} |-> m[x]]

SetAdd(s, x) == IF x \in Range(s) THEN s ELSE Append(s, x)

SetDelete(s, x) == SelectSeq(s, LAMBDA y : y # x)

\* ---- session-registry.ts -------------------------------------------------
\* A registry value is the pair of module-level maps.
Registry(d2s, s2d) == [d2s |-> d2s, s2d |-> s2d]

registerDeviceSession(reg, d, s) ==
  LET sessions == IF MapHas(reg.d2s, d) THEN reg.d2s[d] ELSE <<>>
      devices == IF MapHas(reg.s2d, s) THEN reg.s2d[s] ELSE <<>>
  IN Registry(MapSet(reg.d2s, d, SetAdd(sessions, s)),
              MapSet(reg.s2d, s, SetAdd(devices, d)))

\* one iteration of the loop of unregisterDevice over the device's sessions
RECURSIVE dropFromSessions(_, _, _)
dropFromSessions(s2d, sessions, d) ==
  IF sessions = <<>> THEN s2d
  ELSE LET s == Head(sessions)
           next == IF MapHas(s2d, s)
                   THEN LET devices == SetDelete(s2d[s], d)
                        IN IF Len(devices) = 0 THEN MapDelete(s2d, s)
                           ELSE MapSet(s2d, s, devices)
                   ELSE s2d
       IN dropFromSessions(next, Tail(sessions), d)

\* variant: the emptied device set of a session is left in the index
unregisterDevice_keepEmpty(reg, d) ==
  IF ~MapHas(reg.d2s, d) THEN reg
  ELSE Registry(MapDelete(reg.d2s, d),
                [s \in DOMAIN reg.s2d |-> SetDelete(reg.s2d[s], d)])

\* variant: every session of the device is dropped with all its devices
unregisterDevice_dropSessions(reg, d) ==
  IF ~MapHas(reg.d2s, d) THEN reg
  ELSE Registry(MapDelete(reg.d2s, d),
                [s \in (DOMAIN reg.s2d) \ Range(reg.d2s[d]) |-> reg.s2d[s]])

\* variant: only the device's own index entry is removed
unregisterDevice_oneSided(reg, d) ==
  IF ~MapHas(reg.d2s, d) THEN reg
  ELSE Registry(MapDelete(reg.d2s, d), reg.s2d)

unregisterDevice(reg, d) ==
  IF ~MapHas(reg.d2s, d) THEN reg
  ELSE Registry(MapDelete(reg.d2s, d), dropFromSessions(reg.s2d, reg.d2s[d], d))

\* variant: the devices of some mapped session are returned, whatever the session asked for
getDevicesForSession_all(reg, s) ==
  IF DOMAIN reg.s2d = {} THEN <<>> ELSE reg.s2d[CHOOSE k \in DOMAIN reg.s2d : TRUE]

getDevicesForSession(reg, s) == IF MapHas(reg.s2d, s) THEN reg.s2d[s] ELSE <<>>

getSessionsForDevice(reg, d) == IF MapHas(reg.d2s, d) THEN reg.d2s[d] ELSE <<>>

clearSessionRegistry(reg) == Registry(EmptyMap, EmptyMap)

\* ---- state ---------------------------------------------------------------
VARIABLES
  now,                  \* Date.now(), in half minutes
  nextSweep,            \* next firing time of cleanupInterval (ws-handler.ts)
  recentKeys,           \* ws-handler.ts: idempotencyKey -> expiration time
  uuid,                 \* number of crypto.randomUUID() values drawn so far
  deviceToSessions,     \* session-registry.ts
  sessionToDevices,     \* session-registry.ts
  readyState,           \* per connection: "NONE" (not accepted yet), "OPEN", "CLOSING", "CLOSED"
  receiving,            \* per connection: the socket still delivers inbound frames
  closeCode,            \* per connection: code of the close that started the closing, 0 if none
  authenticated,        \* per connection closure variable of wss.on("connection")
  deviceId,             \* per connection closure variable, Null until authenticated
  authTimer,            \* per connection: authTimer is armed
  clients,              \* ws-server.ts: deviceId -> connection
  out,                  \* per connection: frames written to the socket by the last step
  inflight,             \* dispatchInboundMessage calls that have not settled
  activeDispatchRunIds, \* event listener
  deliveredMessageIds,  \* event listener (insertion ordered)
  runBuffers,           \* event listener: runId -> messageId
  unsubscribe,          \* event listener: TRUE when subscribed to agent events
  lastValid,            \* history: the last valid "message" frame the handler processed
  dispatchCount,        \* history: client key -> number of dispatchInboundMessage calls
  acceptedAt,           \* history: client key -> time of its last "started" ack, -1 if none
  connHist,             \* history per connection
  sendCall,             \* outbound.ts: the sendText call in progress, or the last one
  sendCount,            \* number of sendText calls made so far
  apnsConfig,           \* the channel's static configuration holds apnsToken and apnsTopic
  activeConnections,    \* setup.ts: the devices of the gateway connection registry
  lastEvt,              \* the agent event the listener received in the last step, if any
  listeners,            \* agent-events: number of callbacks of this module subscribed to the bus
  pongReceived,         \* per connection closure variable of wss.on("connection")
  pingTimer,            \* per connection: pingTimer is armed
  probes,               \* history per connection: liveness ticks and probes since the last pong
  recording,            \* a capture of the frames written to the sockets is kept
  frameLog              \* per connection: the frames captured so far, in the order written

vars == <<now, nextSweep, recentKeys, uuid, deviceToSessions, sessionToDevices,
          readyState, receiving, closeCode, authenticated, deviceId, authTimer,
          clients, out, inflight, activeDispatchRunIds, deliveredMessageIds,
          runBuffers, unsubscribe, lastValid, dispatchCount, acceptedAt, connHist,
          sendCall, sendCount, apnsConfig, activeConnections, lastEvt, listeners, pongReceived, pingTimer,
          probes, recording, frameLog>>

clockVars == <<now, nextSweep>>
registryVars == <<deviceToSessions, sessionToDevices>>
socketVars == <<readyState, receiving, closeCode>>
gatewayVars == <<authenticated, deviceId, authTimer, clients>>
listenerVars == <<activeDispatchRunIds, deliveredMessageIds, runBuffers, unsubscribe>>
handlerHist == <<lastValid, dispatchCount, acceptedAt>>
outboundVars == <<sendCall, sendCount, apnsConfig, activeConnections>>
livenessVars == <<pongReceived, pingTimer, probes>>

\* ---- frames --------------------------------------------------------------
Frame(t, sk, mid, key, txt) ==
  [type |-> t, sessionKey |-> sk, messageId |-> mid, idempotencyKey |-> key, text |-> txt]

ErrorFrame(msg) == Frame("error", Null, Null, Null, msg)
AckFrame(key, status) == Frame("ack", Null, Null, key, status)
TypingFrame(sk, isTyping) == Frame("typing", sk, Null, Null, IF isTyping THEN "true" ELSE "false")
AgentTextFrame(sk, mid, txt) == Frame("agentText", sk, mid, Null, txt)
AgentDoneFrame(sk, mid) == Frame("agentDone", sk, mid, Null, "")

Quiet == [c \in Conns |-> <<>>]

\* an event of the agent runtime
AgentEvt(runId, stream, sk, txt, phase) ==
  [runId |-> runId, stream |-> stream, sessionKey |-> sk, text |-> txt, phase |-> phase]

\* no event received
NoEvt == [evt |-> AgentEvt(Null, "", Null, "", ""), wasActive |-> FALSE]

\* the liveness history of a connection that has just been accepted
NoProbes == [ticks |-> 0, sent |-> 0, terminated |-> FALSE]

\* ws.send / sendFrame / sendToDevice: frames reach the socket only while it is OPEN
wsSend(o, rs, c, frames) == IF rs[c] = "OPEN" THEN [o EXCEPT ![c] = @ \o frames] ELSE o

\* variant: the frame is handed to the socket whatever its state
sendFrame_unchecked(o, rs, c, frames) == [o EXCEPT ![c] = @ \o frames]

\* sendFrame(ws, frame) of ws-handler.ts
sendFrame(o, rs, c, frames) == wsSend(o, rs, c, frames)

\* the capture: the frames a step writes are appended to the log of their connection
Record ==
  /\ frameLog' = IF recording THEN [c \in Conns |-> frameLog[c] \o out'[c]] ELSE frameLog
  /\ \A c \in Conns : Len(frameLog'[c]) <= MaxLog

\* ---- inbound frames ------------------------------------------------------
\* sessionKey: Null = absent, BadSessionKey = present but not agent:<name>:<conversation>
BadSessionKey == -1
GoodToken == 1
BadToken == 2
Texts == {"", " ", "hi"}

RawFrame(t, tok, dev, sk, txt, key) ==
  [type |-> t, token |-> tok, deviceId |-> dev, sessionKey |-> sk, text |-> txt,
   idempotencyKey |-> key]

AuthFrames == {RawFrame("auth", tok, dev, Null, "", Null) :
                 tok \in {GoodToken, BadToken}, dev \in Devices \cup {Null}}
MessageFrames == {RawFrame("message", Null, Null, sk, txt, key) :
                    sk \in Sessions \cup {Null, BadSessionKey}, txt \in Texts,
                    key \in ClientKeys \cup {Null}}
OtherFrames == {RawFrame(t, Null, Null, Null, "", Null) : t \in {"invalid", "ping", "other"}}
RawFrames == AuthFrames \cup MessageFrames \cup OtherFrames

\* the frames the clients of the gateway send: auth attempts, well-formed messages, and
\* one frame of an unknown type
\* one frame per outcome of the validation of handleWsMessage, and the valid messages
HandlerFrames ==
  {f \in MessageFrames : f.sessionKey \in Sessions /\ f.text = "hi"}
  \cup {f \in MessageFrames : f.sessionKey \notin Sessions /\ f.text = "hi"
                               /\ f.idempotencyKey = Null}
  \cup {f \in MessageFrames : f.sessionKey = 1 /\ f.text # "hi" /\ f.idempotencyKey = Null}
  \cup OtherFrames

GatewayFrames ==
  AuthFrames
  \cup {f \in MessageFrames : f.sessionKey \in GatewaySessions /\ f.text = "hi"}
  \cup {f \in OtherFrames : f.type = "other"}

Trim(t) == IF t = " " THEN "" ELSE t

randomUUID(n) == UuidBase + n + 1

\* ---- ws-handler.ts: idempotency cache -------------------------------------
\* variant: the sweep empties the cache
sweepRecentKeys_all(keys, t) == EmptyMap

\* variant: the sweep adds the TTL once more and deletes an entry one TTL after its expiry
sweepRecentKeys_late(keys, t) ==
  LET keep == {k \in DOMAIN keys : ~(t >= keys[k] + IDEMPOTENCY_TTL_MS)}
  IN [k \in keep |-> keys[k]]

\* setInterval callback: delete every entry with now >= expiresAt
sweepRecentKeys(keys, t) ==
  LET keep == {k \in DOMAIN keys : ~(t >= keys[k])}
  IN [k \in keep |-> keys[k]]

hasClientKey(raw) == raw.idempotencyKey # Null

\* variant: an entry counts as long as it is in the cache, expired or not
isDuplicate_present(keys, raw, t) ==
  /\ hasClientKey(raw)
  /\ MapHas(keys, raw.idempotencyKey)
  /\ keys[raw.idempotencyKey] # 0

\* variant: the idempotency check never finds a duplicate
isDuplicate_never(keys, raw, t) == FALSE

\* variant: an entry still counts at its expiry time (<= for <)
isDuplicate_inclusive(keys, raw, t) ==
  /\ hasClientKey(raw)
  /\ MapHas(keys, raw.idempotencyKey)
  /\ keys[raw.idempotencyKey] # 0
  /\ t <= keys[raw.idempotencyKey]

\* the idempotency check: a client key with an entry that has not expired
isDuplicate(keys, raw, t) ==
  /\ hasClientKey(raw)
  /\ MapHas(keys, raw.idempotencyKey)
  /\ keys[raw.idempotencyKey] # 0
  /\ t < keys[raw.idempotencyKey]

\* variant: the key is recorded with the current time as its expiry
recordKey_noTtl(keys, key, t) == MapSet(keys, key, t)

\* recentKeys.set(idempotencyKey, Date.now() + IDEMPOTENCY_TTL_MS)
recordKey(keys, key, t) == MapSet(keys, key, t + IDEMPOTENCY_TTL_MS)

\* variant: the text is tested before it is trimmed, a blank text is accepted
earlyReply_noTrim(raw) ==
  IF raw.type = "invalid" THEN <<ErrorFrame("invalid JSON")>>
  ELSE IF raw.type = "ping" THEN <<Frame("pong", Null, Null, Null, "")>>
  ELSE IF raw.type # "message" THEN <<ErrorFrame("unknown message type: " \o raw.type)>>
  ELSE IF raw.sessionKey = Null THEN <<ErrorFrame("sessionKey is required")>>
  ELSE IF raw.sessionKey = BadSessionKey THEN <<ErrorFrame("Invalid sessionKey format")>>
  ELSE IF raw.text = "" THEN <<ErrorFrame("text is required")>>
  ELSE <<>>

\* the frame of an early return of handleWsMessage, <<>> when the frame is a valid message
earlyReply(raw) ==
  IF raw.type = "invalid" THEN <<ErrorFrame("invalid JSON")>>
  ELSE IF raw.type = "ping" THEN <<Frame("pong", Null, Null, Null, "")>>
  ELSE IF raw.type # "message" THEN <<ErrorFrame("unknown message type: " \o raw.type)>>
  ELSE IF raw.sessionKey = Null THEN <<ErrorFrame("sessionKey is required")>>
  ELSE IF raw.sessionKey = BadSessionKey THEN <<ErrorFrame("Invalid sessionKey format")>>
  ELSE IF raw.text = "" \/ Trim(raw.text) = "" THEN <<ErrorFrame("text is required")>>
  ELSE <<>>

isValidMessage(raw) == earlyReply(raw) = <<>>

Dispatch(c, sk, runId, mid) == [conn |-> c, sessionKey |-> sk, runId |-> runId, messageId |-> mid]

\* handleWsMessage(ws, deviceId, raw)
HandleWsMessage(c, d, raw) ==
  LET reg == Registry(deviceToSessions, sessionToDevices) IN
  IF ~isValidMessage(raw) THEN
    /\ out' = sendFrame(Quiet, readyState, c, earlyReply(raw))
    /\ UNCHANGED <<recentKeys, uuid, registryVars, inflight, handlerHist>>
  ELSE IF isDuplicate(recentKeys, raw, now) THEN
    /\ lastValid.n < MaxMsgs
    /\ out' = sendFrame(Quiet, readyState, c, <<AckFrame(raw.idempotencyKey, "duplicate")>>)
    /\ lastValid' = [n |-> lastValid.n + 1, device |-> d, sessionKey |-> raw.sessionKey,
                     key |-> raw.idempotencyKey]
    /\ UNCHANGED <<recentKeys, uuid, registryVars, inflight, dispatchCount, acceptedAt>>
  ELSE
    LET generated == ~hasClientKey(raw)
        key == IF generated THEN randomUUID(uuid) ELSE raw.idempotencyKey
        drawn == IF generated THEN uuid + 1 ELSE uuid
        messageId == randomUUID(drawn)
        reg2 == registerDeviceSession(reg, d, raw.sessionKey)
    IN
    /\ lastValid.n < MaxMsgs
    /\ recentKeys' = recordKey(recentKeys, key, now)
    /\ deviceToSessions' = reg2.d2s
    /\ sessionToDevices' = reg2.s2d
    /\ out' = sendFrame(Quiet, readyState, c,
                        <<AckFrame(key, "started"), TypingFrame(raw.sessionKey, TRUE)>>)
    /\ uuid' = drawn + 1
    /\ inflight' = inflight \cup {Dispatch(c, raw.sessionKey, key, messageId)}
    /\ lastValid' = [n |-> lastValid.n + 1, device |-> d, sessionKey |-> raw.sessionKey,
                     key |-> raw.idempotencyKey]
    /\ dispatchCount' = IF generated THEN dispatchCount
                        ELSE [dispatchCount EXCEPT ![key] = @ + 1]
    /\ acceptedAt' = IF generated THEN acceptedAt ELSE [acceptedAt EXCEPT ![key] = now]

\* ---- ws-handler.ts: callbacks of the dispatch collaborator -----------------
\* the frames of onError
onErrorFrames(sk, mid) ==
  <<ErrorFrame("dispatch error"), TypingFrame(sk, FALSE), AgentDoneFrame(sk, mid)>>

\* the frames of .then
resolvedFrames(sk, mid) == <<TypingFrame(sk, FALSE), AgentDoneFrame(sk, mid)>>

\* variant: the failure is reported and the exchange is left without completion
rejectedFrames_errorOnly(sk, mid) == <<ErrorFrame("dispatch failed")>>

\* the frames of .catch
rejectedFrames(sk, mid) ==
  <<ErrorFrame("dispatch failed"), TypingFrame(sk, FALSE), AgentDoneFrame(sk, mid)>>

\* dispatcher.deliver(chunk)
DispatchDeliver(r) ==
  /\ UNCHANGED <<outboundVars, listeners, livenessVars, recording>> /\ lastEvt' = NoEvt
  /\ r \in inflight
  /\ out' = sendFrame(Quiet, readyState, r.conn,
                      <<AgentTextFrame(r.sessionKey, r.messageId, "chunk")>>)
  /\ UNCHANGED <<clockVars, recentKeys, uuid, registryVars, socketVars, gatewayVars,
                 inflight, listenerVars, handlerHist, connHist>>
  /\ Record

\* dispatcher.onError(err)
DispatchOnError(r) ==
  /\ UNCHANGED <<outboundVars, listeners, livenessVars, recording>> /\ lastEvt' = NoEvt
  /\ r \in inflight
  /\ out' = sendFrame(Quiet, readyState, r.conn, onErrorFrames(r.sessionKey, r.messageId))
  /\ UNCHANGED <<clockVars, recentKeys, uuid, registryVars, socketVars, gatewayVars,
                 inflight, listenerVars, handlerHist, connHist>>
  /\ Record

\* dispatchInboundMessage(...).then(...)
DispatchResolve(r) ==
  /\ UNCHANGED <<outboundVars, listeners, livenessVars, recording>> /\ lastEvt' = NoEvt
  /\ r \in inflight
  /\ out' = sendFrame(Quiet, readyState, r.conn, resolvedFrames(r.sessionKey, r.messageId))
  /\ inflight' = inflight \ {r}
  /\ UNCHANGED <<clockVars, recentKeys, uuid, registryVars, socketVars, gatewayVars,
                 listenerVars, handlerHist, connHist>>
  /\ Record

\* dispatchInboundMessage(...).catch(...)
DispatchReject(r) ==
  /\ UNCHANGED <<outboundVars, listeners, livenessVars, recording>> /\ lastEvt' = NoEvt
  /\ r \in inflight
  /\ out' = sendFrame(Quiet, readyState, r.conn, rejectedFrames(r.sessionKey, r.messageId))
  /\ inflight' = inflight \ {r}
  /\ UNCHANGED <<clockVars, recentKeys, uuid, registryVars, socketVars, gatewayVars,
                 listenerVars, handlerHist, connHist>>
  /\ Record

\* ---- the clock and the cleanup interval ----------------------------------
Tick ==
  /\ UNCHANGED <<outboundVars, listeners, livenessVars, recording>> /\ lastEvt' = NoEvt
  /\ now < MaxTime
  /\ now < nextSweep
  /\ now' = now + 1
  /\ UNCHANGED <<nextSweep, recentKeys, uuid, registryVars, socketVars, gatewayVars, inflight, listenerVars, handlerHist, connHist>> /\ out' = Quiet
  /\ Record

Sweep ==
  /\ UNCHANGED <<outboundVars, listeners, livenessVars, recording>> /\ lastEvt' = NoEvt
  /\ now = nextSweep
  /\ recentKeys' = sweepRecentKeys(recentKeys, now)
  /\ nextSweep' = nextSweep + SWEEP_INTERVAL
  /\ UNCHANGED <<now, uuid, registryVars, socketVars, gatewayVars, inflight,
                 listenerVars, handlerHist, connHist>> /\ out' = Quiet
  /\ Record

\* ---- ws-server.ts: the gateway -------------------------------------------
\* ws.close(code): starts the closing handshake of an OPEN socket. The socket keeps
\* delivering inbound frames until the peer answers or the socket ends.
wsCloseState(rs, c) == IF rs[c] = "OPEN" THEN [rs EXCEPT ![c] = "CLOSING"] ELSE rs
wsCloseCode(rs, cc, c, code) == IF rs[c] = "OPEN" THEN [cc EXCEPT ![c] = code] ELSE cc

\* variant: the previous connection is left open
evictExisting_skip(rs, cl, d) == rs

\* the eviction of the previous connection of a device on auth success
evictExisting(rs, cl, d) ==
  IF MapHas(cl, d) /\ rs[cl[d]] = "OPEN" THEN wsCloseState(rs, cl[d]) ELSE rs

evictExistingCode(rs, cc, cl, d) ==
  IF MapHas(cl, d) /\ rs[cl[d]] = "OPEN" THEN wsCloseCode(rs, cc, cl[d], CLOSE_REPLACED) ELSE cc

\* clients.set(deviceId, ws)
registerClient(cl, d, c) == MapSet(cl, d, c)

\* variant: the handler removes the entry of its device whichever connection holds it
removeClient_always(cl, d, c) == MapDelete(cl, d)

\* close/error handler: remove only if this is still the active connection
removeClient(cl, d, c) == IF MapHas(cl, d) /\ cl[d] = c THEN MapDelete(cl, d) ELSE cl

\* resolveGatewayToken() is the configured token
tokenAccepted(raw) == raw.token = GoodToken

\* wss.on("connection")
Connect(c) ==
  /\ UNCHANGED <<outboundVars, listeners, recording>> /\ lastEvt' = NoEvt
  /\ pongReceived' = [pongReceived EXCEPT ![c] = TRUE]
  /\ pingTimer' = [pingTimer EXCEPT ![c] = TRUE]
  /\ probes' = [probes EXCEPT ![c] = NoProbes]
  /\ readyState[c] = "NONE"
  /\ \A b \in Conns : b < c => readyState[b] # "NONE"
  /\ readyState' = [readyState EXCEPT ![c] = "OPEN"]
  /\ receiving' = [receiving EXCEPT ![c] = TRUE]
  /\ authTimer' = [authTimer EXCEPT ![c] = TRUE]
  /\ UNCHANGED <<clockVars, recentKeys, uuid, registryVars, closeCode, authenticated,
                 deviceId, clients, inflight, listenerVars, handlerHist, connHist>> /\ out' = Quiet
  /\ Record

\* a rejected frame of the unauthenticated phase: error frame, close, clearTimeout
RejectUnauthenticated(c, msg, code) ==
  /\ out' = wsSend(Quiet, readyState, c, <<ErrorFrame(msg)>>)
  /\ readyState' = wsCloseState(readyState, c)
  /\ closeCode' = wsCloseCode(readyState, closeCode, c, code)
  /\ authTimer' = [authTimer EXCEPT ![c] = FALSE]
  /\ UNCHANGED <<authenticated, deviceId, clients>>

\* ws.on("message") while !authenticated
OnAuthMessage(c, raw) ==
  /\ UNCHANGED <<clockVars, recentKeys, uuid, registryVars, receiving, inflight,
                 listenerVars, handlerHist>>
  /\ IF raw.type = "invalid" THEN
       /\ RejectUnauthenticated(c, "invalid JSON", CLOSE_INVALID_JSON)
       /\ UNCHANGED connHist
     ELSE IF raw.type # "auth" THEN
       /\ RejectUnauthenticated(c, "expected auth message", CLOSE_EXPECTED_AUTH)
       /\ UNCHANGED connHist
     ELSE IF ~tokenAccepted(raw) THEN
       /\ RejectUnauthenticated(c, "auth failed", CLOSE_AUTH_FAILED)
       /\ UNCHANGED connHist
     ELSE IF raw.deviceId = Null THEN
       /\ RejectUnauthenticated(c, "deviceId required", CLOSE_DEVICEID_REQUIRED)
       /\ UNCHANGED connHist
     ELSE
       /\ authenticated' = [authenticated EXCEPT ![c] = TRUE]
       /\ deviceId' = [deviceId EXCEPT ![c] = raw.deviceId]
       /\ authTimer' = [authTimer EXCEPT ![c] = FALSE]
       /\ readyState' = evictExisting(readyState, clients, raw.deviceId)
       /\ closeCode' = evictExistingCode(readyState, closeCode, clients, raw.deviceId)
       /\ clients' = registerClient(clients, raw.deviceId, c)
       /\ out' = wsSend(Quiet, readyState, c, <<Frame("connected", Null, Null, Null, "")>>)
       /\ UNCHANGED connHist

\* variant: an auth frame is taken as an authentication attempt at any time
expectsAuth_anyAuthFrame(auth, c, raw) == ~auth[c] \/ raw.type = "auth"

\* the test of the message handler: the connection has not authenticated yet
expectsAuth(auth, c, raw) == ~auth[c]

\* ws.on("message")
OnMessage(c, raw) ==
  /\ UNCHANGED <<outboundVars, listeners, livenessVars, recording>> /\ lastEvt' = NoEvt
  /\ readyState[c] \in {"OPEN", "CLOSING"}
  /\ receiving[c]
  /\ IF expectsAuth(authenticated, c, raw) THEN OnAuthMessage(c, raw)
     ELSE /\ isValidMessage(raw) => lastValid.n < MaxGatewayMsgs
          /\ HandleWsMessage(c, deviceId[c], raw)
          /\ uuid' <= MaxGatewayUuid
          /\ connHist' = [connHist EXCEPT ![c].handled = TRUE]
          /\ UNCHANGED <<clockVars, socketVars, gatewayVars, listenerVars>>
  /\ Record

\* variant: the test of the timer callback is inverted
authTimedOut_inverted(auth, c) == auth[c]

\* the test of the timer callback: the connection has not authenticated
authTimedOut(auth, c) == ~auth[c]

\* authTimer fires
AuthTimeout(c) ==
  /\ UNCHANGED <<outboundVars, listeners, livenessVars, recording>> /\ lastEvt' = NoEvt
  /\ authTimer[c]
  /\ authTimer' = [authTimer EXCEPT ![c] = FALSE]
  /\ IF authTimedOut(authenticated, c) THEN
       /\ out' = wsSend(Quiet, readyState, c, <<ErrorFrame("auth timeout")>>)
       /\ readyState' = wsCloseState(readyState, c)
       /\ closeCode' = wsCloseCode(readyState, closeCode, c, CLOSE_AUTH_TIMEOUT)
     ELSE UNCHANGED <<readyState, closeCode>> /\ out' = Quiet
  /\ UNCHANGED <<clockVars, recentKeys, uuid, registryVars, receiving, authenticated,
                 deviceId, clients, inflight, listenerVars, handlerHist, connHist>>
  /\ Record

\* the peer starts or answers the closing handshake: no further inbound frame is
\* delivered, the "close" event follows when the socket has ended
PeerClose(c) ==
  /\ UNCHANGED <<outboundVars, listeners, livenessVars, recording>> /\ lastEvt' = NoEvt
  /\ readyState[c] \in {"OPEN", "CLOSING"}
  /\ receiving[c]
  /\ receiving' = [receiving EXCEPT ![c] = FALSE]
  /\ readyState' = wsCloseState(readyState, c)
  /\ closeCode' = wsCloseCode(readyState, closeCode, c, CLOSE_PEER)
  /\ UNCHANGED <<clockVars, recentKeys, uuid, registryVars, gatewayVars, inflight,
                 listenerVars, handlerHist, connHist>> /\ out' = Quiet
  /\ Record

\* the body shared by ws.on("close") and ws.on("error")
OnCloseOrError(c) ==
  /\ authTimer' = [authTimer EXCEPT ![c] = FALSE]
  /\ IF deviceId[c] # Null THEN
       LET reg == unregisterDevice(Registry(deviceToSessions, sessionToDevices), deviceId[c])
       IN /\ clients' = removeClient(clients, deviceId[c], c)
          /\ deviceToSessions' = reg.d2s
          /\ sessionToDevices' = reg.s2d
     ELSE UNCHANGED <<clients, registryVars>>

\* ws.on("close")
CloseEvent(c) ==
  /\ UNCHANGED <<outboundVars, listeners, recording, pongReceived, probes>> /\ lastEvt' = NoEvt
  /\ pingTimer' = [pingTimer EXCEPT ![c] = FALSE]
  /\ readyState[c] \in {"OPEN", "CLOSING"}
  /\ readyState' = [readyState EXCEPT ![c] = "CLOSED"]
  /\ receiving' = [receiving EXCEPT ![c] = FALSE]
  /\ OnCloseOrError(c)
  /\ UNCHANGED <<clockVars, recentKeys, uuid, closeCode, authenticated, deviceId, inflight, listenerVars, handlerHist, connHist>> /\ out' = Quiet
  /\ Record

\* ws.on("error"): the socket is destroyed, the "close" event follows
ErrorEvent(c) ==
  /\ UNCHANGED <<outboundVars, listeners, livenessVars, recording>> /\ lastEvt' = NoEvt
  /\ readyState[c] \in {"OPEN", "CLOSING"}
  /\ ~connHist[c].errored
  /\ connHist' = [connHist EXCEPT ![c].errored = TRUE]
  /\ readyState' = [readyState EXCEPT ![c] = "CLOSING"]
  /\ receiving' = [receiving EXCEPT ![c] = FALSE]
  /\ OnCloseOrError(c)
  /\ UNCHANGED <<clockVars, recentKeys, uuid, closeCode, authenticated, deviceId, inflight, listenerVars, handlerHist>> /\ out' = Quiet
  /\ Record

\* ---- ws-server.ts: the liveness check of a connection ------------------------
\* variant: the test of the liveness tick is inverted
pongExpired_inverted(flag, c) == flag[c]

\* the test of the liveness tick: no pong since the previous tick
pongExpired(flag, c) == ~flag[c]

\* ws.terminate(): the socket is destroyed at once, the "close" event follows
wsTerminateState(rs, c) == IF rs[c] \in {"OPEN", "CLOSING"} THEN [rs EXCEPT ![c] = "CLOSING"] ELSE rs

\* pingTimer fires
PingTick(c) ==
  /\ UNCHANGED <<outboundVars, listeners, recording>> /\ lastEvt' = NoEvt
  /\ pingTimer[c]
  /\ IF pongExpired(pongReceived, c) THEN
       /\ readyState' = wsTerminateState(readyState, c)
       /\ closeCode' = wsCloseCode(readyState, closeCode, c, CLOSE_ABNORMAL)
       /\ receiving' = [receiving EXCEPT ![c] = FALSE]
       /\ pingTimer' = [pingTimer EXCEPT ![c] = FALSE]
       /\ probes' = [probes EXCEPT ![c].ticks = @ + 1, ![c].terminated = TRUE]
       /\ UNCHANGED pongReceived
     ELSE
       /\ pongReceived' = [pongReceived EXCEPT ![c] = FALSE]
       /\ probes' = [probes EXCEPT ![c].ticks = @ + 1,
                                   ![c].sent = IF readyState[c] = "OPEN" THEN @ + 1 ELSE @]
       /\ UNCHANGED <<socketVars, pingTimer>>
  /\ out' = Quiet
  /\ UNCHANGED <<clockVars, recentKeys, uuid, registryVars, gatewayVars, inflight,
                 listenerVars, handlerHist, connHist>>
  /\ Record

\* ws.on("pong"): the peer answers a probe, or sends a pong of its own
Pong(c) ==
  /\ UNCHANGED <<outboundVars, listeners, recording>> /\ lastEvt' = NoEvt
  /\ readyState[c] \in {"OPEN", "CLOSING"}
  /\ receiving[c]
  /\ pongReceived' = [pongReceived EXCEPT ![c] = TRUE]
  /\ probes' = [probes EXCEPT ![c].ticks = 0, ![c].sent = 0]
  /\ out' = Quiet
  /\ UNCHANGED <<clockVars, recentKeys, uuid, registryVars, socketVars, gatewayVars, inflight,
                 listenerVars, handlerHist, connHist, pingTimer>>
  /\ Record

\* ---- ws-server.ts: the agent event listener --------------------------------
DELIVERED_CAP == 1000

\* the events the agent runtime can emit: text deltas (possibly resolving to no text),
\* lifecycle phases and other streams, with or without a session key
AgentEvts(runIds, sessions) ==
  {AgentEvt(r, "assistant", sk, txt, "") :
     r \in runIds, sk \in sessions \cup {Null}, txt \in {"", "delta"}}
  \cup {AgentEvt(r, "lifecycle", sk, "", ph) :
     r \in runIds, sk \in sessions \cup {Null}, ph \in {"start", "end", "error"}}
  \cup {AgentEvt(r, "tool", sk, "", "") : r \in runIds, sk \in sessions \cup {Null}}

\* sendToDevice(deviceId, frame)
sendToDevice(o, rs, cl, d, frames) ==
  IF MapHas(cl, d) /\ rs[cl[d]] = "OPEN" THEN wsSend(o, rs, cl[d], frames) ELSE o

\* variant: the loop ends at the first device that cannot be reached
RECURSIVE fanOut_stopAtUnreachable(_, _, _, _, _)
fanOut_stopAtUnreachable(o, rs, cl, deviceIds, frames) ==
  IF deviceIds = <<>> THEN o
  ELSE IF ~(MapHas(cl, Head(deviceIds)) /\ rs[cl[Head(deviceIds)]] = "OPEN") THEN o
  ELSE fanOut_stopAtUnreachable(sendToDevice(o, rs, cl, Head(deviceIds), frames), rs, cl,
                                Tail(deviceIds), frames)

\* for (const deviceId of deviceIds) sendToDevice(deviceId, frame)
RECURSIVE fanOut(_, _, _, _, _)
fanOut(o, rs, cl, deviceIds, frames) ==
  IF deviceIds = <<>> THEN o
  ELSE fanOut(sendToDevice(o, rs, cl, Head(deviceIds), frames), rs, cl, Tail(deviceIds), frames)

\* variant: the prune keeps the first DELIVERED_CAP identifiers and drops the newest
pruneDelivered_keepOldest(ids) ==
  IF Len(ids) > DELIVERED_CAP THEN SubSeq(ids, 1, DELIVERED_CAP) ELSE ids

\* prune of deliveredMessageIds: keep the last DELIVERED_CAP
pruneDelivered(ids) ==
  IF Len(ids) > DELIVERED_CAP THEN SubSeq(ids, Len(ids) - DELIVERED_CAP + 1, Len(ids)) ELSE ids

markDispatchActive(active, runId) == active \cup {runId}

markDispatchComplete(active, runId) == active \ {runId}

\* variant: the marker set of the dispatches is not consulted
eventSkipped_ignoreActive(active, reg, evt) ==
  \/ evt.sessionKey = Null
  \/ Len(getDevicesForSession(reg, evt.sessionKey)) = 0

\* the listener skips the event before looking at its stream
eventSkipped(active, reg, evt) ==
  \/ evt.runId \in active
  \/ evt.sessionKey = Null
  \/ Len(getDevicesForSession(reg, evt.sessionKey)) = 0

\* variant: every text event draws an identifier of its own
runMessageId_perEvent(buffers, runId, n) == randomUUID(n)

\* the message identifier of a run: the one of its buffer, created at its first text event
runMessageId(buffers, runId, n) ==
  IF MapHas(buffers, runId) THEN buffers[runId] ELSE randomUUID(n)

\* the callback passed to onAgentEvent
OnAgentEvent(evt) ==
  LET reg == Registry(deviceToSessions, sessionToDevices)
      deviceIds == getDevicesForSession(reg, evt.sessionKey)
  IN
  /\ UNCHANGED <<outboundVars, listeners, livenessVars, recording>>
  /\ lastEvt' = [evt |-> evt, wasActive |-> evt.runId \in activeDispatchRunIds]
  /\ listeners > 0
  /\ UNCHANGED <<clockVars, recentKeys, registryVars, socketVars, gatewayVars, inflight,
                 activeDispatchRunIds, unsubscribe, handlerHist, connHist>>
  /\ IF eventSkipped(activeDispatchRunIds, reg, evt) THEN
       UNCHANGED <<uuid, runBuffers, deliveredMessageIds>> /\ out' = Quiet
     ELSE IF evt.stream = "assistant" THEN
       IF evt.text = "" THEN UNCHANGED <<uuid, runBuffers, deliveredMessageIds>> /\ out' = Quiet
       ELSE
         LET fresh == ~MapHas(runBuffers, evt.runId)
             mid == runMessageId(runBuffers, evt.runId, uuid)
         IN /\ uuid' = IF fresh THEN uuid + 1 ELSE uuid
            /\ runBuffers' = IF fresh THEN MapSet(runBuffers, evt.runId, mid) ELSE runBuffers
            /\ out' = fanOut(Quiet, readyState, clients, deviceIds,
                             <<AgentTextFrame(evt.sessionKey, mid, evt.text)>>)
            /\ UNCHANGED deliveredMessageIds
     ELSE IF evt.stream = "lifecycle" THEN
       IF evt.phase \notin {"end", "error"} \/ ~MapHas(runBuffers, evt.runId)
       THEN UNCHANGED <<uuid, runBuffers, deliveredMessageIds>> /\ out' = Quiet
       ELSE
         LET mid == runBuffers[evt.runId]
         IN /\ deliveredMessageIds' = pruneDelivered(SetAdd(deliveredMessageIds, mid))
            /\ out' = fanOut(Quiet, readyState, clients, deviceIds,
                             <<AgentDoneFrame(evt.sessionKey, mid)>>)
            /\ runBuffers' = MapDelete(runBuffers, evt.runId)
            /\ UNCHANGED uuid
     ELSE UNCHANGED <<uuid, runBuffers, deliveredMessageIds>> /\ out' = Quiet
  /\ Record

\* emitAgentEvent: the agent runtime emits an event of an agent run, or of the run of a
\* dispatch in flight (replyOptions.runId is the idempotency key)
AgentEvent ==
  \E evt \in AgentEvts(AgentRuns \cup {r.runId : r \in inflight}, GatewaySessions) :
    OnAgentEvent(evt) /\ uuid' <= MaxGatewayUuid

MarkDispatchActive(k) ==
  /\ UNCHANGED <<outboundVars, listeners, livenessVars, recording>> /\ lastEvt' = NoEvt
  /\ activeDispatchRunIds' = markDispatchActive(activeDispatchRunIds, k)
  /\ UNCHANGED <<clockVars, recentKeys, uuid, registryVars, socketVars, gatewayVars, inflight, deliveredMessageIds, runBuffers, unsubscribe, handlerHist,
                 connHist>> /\ out' = Quiet
  /\ Record

MarkDispatchComplete(k) ==
  /\ UNCHANGED <<outboundVars, listeners, livenessVars, recording>> /\ lastEvt' = NoEvt
  /\ activeDispatchRunIds' = markDispatchComplete(activeDispatchRunIds, k)
  /\ UNCHANGED <<clockVars, recentKeys, uuid, registryVars, socketVars, gatewayVars, inflight, deliveredMessageIds, runBuffers, unsubscribe, handlerHist,
                 connHist>> /\ out' = Quiet
  /\ Record

\* ---- ws-server.ts: the lifecycle of the event listener -----------------------
\* variant: start subscribes whether or not a subscription is held
startSubscribes_always(unsub) == TRUE

\* the guard of startAgentEventListener: no subscription is held
startSubscribes(unsub) == ~unsub

\* the guard of stopAgentEventListener: a subscription is held and is released
stopUnsubscribes(unsub) == unsub

\* startAgentEventListener()
StartAgentEventListener ==
  /\ UNCHANGED <<outboundVars, livenessVars, recording>> /\ lastEvt' = NoEvt
  /\ IF startSubscribes(unsubscribe)
     THEN listeners' = listeners + 1 /\ listeners' <= MaxListeners /\ unsubscribe' = TRUE
     ELSE UNCHANGED <<listeners, unsubscribe>>
  /\ out' = Quiet
  /\ UNCHANGED <<clockVars, recentKeys, uuid, registryVars, socketVars, gatewayVars, inflight,
                 activeDispatchRunIds, deliveredMessageIds, runBuffers, handlerHist, connHist>>
  /\ Record

\* stopAgentEventListener()
StopAgentEventListener ==
  /\ UNCHANGED <<outboundVars, livenessVars, recording>> /\ lastEvt' = NoEvt
  /\ listeners' = IF stopUnsubscribes(unsubscribe) THEN listeners - 1 ELSE listeners
  /\ unsubscribe' = FALSE
  /\ activeDispatchRunIds' = {}
  /\ deliveredMessageIds' = <<>>
  /\ runBuffers' = EmptyMap
  /\ out' = Quiet
  /\ UNCHANGED <<clockVars, recentKeys, uuid, registryVars, socketVars, gatewayVars, inflight,
                 handlerHist, connHist>>
  /\ Record

\* emitAgentEvent while no callback of this module is subscribed: nothing is called
EmitUnheard ==
  /\ UNCHANGED <<outboundVars, listeners, livenessVars, recording>> /\ lastEvt' = NoEvt
  /\ listeners = 0
  /\ out' = Quiet
  /\ UNCHANGED <<clockVars, recentKeys, uuid, registryVars, socketVars, gatewayVars, inflight,
                 listenerVars, handlerHist, connHist>>
  /\ Record

\* ---- outbound.ts: the outbound adapter -------------------------------------
MAX_PAYLOAD_TEXT_LENGTH == 2000
BODY_LIMIT == 200
BODY_KEPT == 197
DeviceKeyBase == 200

\* "x".repeat(n)
RECURSIVE Rep(_, _)
Rep(x, n) ==
  IF n = 0 THEN ""
  ELSE IF n % 2 = 0 THEN LET h == Rep(x, n \div 2) IN h \o h
  ELSE x \o Rep(x, n - 1)

\* the texts handed to sendText: short, at and around the two limits, and one that
\* ends with three dots of its own
OutboundTexts ==
  {Rep("A", n) : n \in {2, BODY_LIMIT, BODY_LIMIT + 1, MAX_PAYLOAD_TEXT_LENGTH,
                        MAX_PAYLOAD_TEXT_LENGTH + 1}}
  \cup {Rep("A", BODY_KEPT) \o "..."}

\* String.prototype.slice(a, b) for 0 <= a <= b
slice(t, a, b) == SubSeq(t, a + 1, IF b < Len(t) THEN b ELSE Len(t))

\* variant: the cut is made at the limit and the dots are added after it
truncatedBody_late(text) ==
  IF Len(text) > BODY_LIMIT THEN slice(text, 0, BODY_LIMIT) \o "..." ELSE text

\* the body of the alert
truncatedBody(text) ==
  IF Len(text) > BODY_LIMIT THEN slice(text, 0, BODY_KEPT) \o "..." ELSE text

\* the text of the custom payload
payloadText(text) ==
  IF Len(text) > MAX_PAYLOAD_TEXT_LENGTH THEN slice(text, 0, MAX_PAYLOAD_TEXT_LENGTH) ELSE text

\* const sessionKey = deviceId: the device identifier in the place of a session key
deviceAsSessionKey(d) == DeviceKeyBase + d

\* the frame of the connection delivery
OutboundTextFrame(d, mid, text) ==
  [final |-> TRUE] @@ Frame("agentText", deviceAsSessionKey(d), mid, Null, text)

\* the argument of sendApnsAlert
ApnsAlert(d, mid, text, registration) ==
  [nodeId |-> d, registration |-> registration, title |-> "New message",
   body |-> truncatedBody(text), kind |-> "talktollm.message", messageId |-> mid,
   sessionKey |-> deviceAsSessionKey(d), text |-> payloadText(text)]

\* the value sendText resolves to
DeliveryResult(mid, d, t) ==
  [channel |-> "talktollm", messageId |-> mid, chatId |-> d, timestamp |-> t]

NoResult == [channel |-> "", messageId |-> Null, chatId |-> Null, timestamp |-> -1]

NoSend ==
  [pc |-> "idle", to |-> Null, text |-> "", messageId |-> Null, registration |-> "none",
   lookup |-> "none", alerts |-> <<>>, result |-> NoResult, path |-> "none"]

\* variant: the push path is taken whatever the state of the connection
wsClientOpen_never(cl, rs, d) == FALSE

\* getConnectedClient(deviceId) is an OPEN socket
wsClientOpen(cl, rs, d) == MapHas(cl, d) /\ rs[cl[d]] = "OPEN"

\* variant: the static configuration is not consulted
resolveRegistration_lookupOnly(outcome, cfg) == IF outcome = "found" THEN "lookup" ELSE "none"

\* the registration of the lookup, else the one assembled from the static configuration
resolveRegistration(outcome, cfg) ==
  IF outcome = "found" THEN "lookup" ELSE IF cfg THEN "config" ELSE "none"

\* variant: an exception of sendApnsAlert is not caught, the promise of sendText rejects
sendTextReturn_propagate(call, path, t) ==
  [call EXCEPT !.pc = "done", !.path = path,
               !.result = IF path = "threw" THEN NoResult
                          ELSE DeliveryResult(call.messageId, call.to, t)]

\* sendText returns
sendTextReturn(call, path, t) ==
  [call EXCEPT !.pc = "done", !.path = path,
               !.result = DeliveryResult(call.messageId, call.to, t)]

\* sendText up to its first await: connection delivery, or the registration lookup starts
SendTextBegin(d, text) ==
  /\ sendCall.pc \in {"idle", "done"}
  /\ sendCount < MaxSends
  /\ sendCount' = sendCount + 1
  /\ uuid' = uuid + 1
  /\ LET mid == randomUUID(uuid)
         call == [NoSend EXCEPT !.to = d, !.text = text, !.messageId = mid]
     IN IF wsClientOpen(clients, readyState, d) THEN
          /\ out' = wsSend(Quiet, readyState, clients[d], <<OutboundTextFrame(d, mid, text)>>)
          /\ sendCall' = sendTextReturn(call, "connection", now)
        ELSE
          /\ out' = Quiet
          /\ sendCall' = [call EXCEPT !.pc = "lookup"]
  /\ UNCHANGED <<clockVars, recentKeys, registryVars, socketVars, gatewayVars, inflight,
                 listenerVars, handlerHist, connHist, apnsConfig, activeConnections,
                 listeners, livenessVars, recording>> /\ lastEvt' = NoEvt
  /\ Record

\* loadApnsRegistration settles, then the fallback to the static configuration
SendTextLookup(outcome) ==
  /\ sendCall.pc = "lookup"
  /\ LET registration == resolveRegistration(outcome, apnsConfig)
         call == [sendCall EXCEPT !.registration = registration, !.lookup = outcome]
     IN sendCall' = IF registration = "none" THEN sendTextReturn(call, "noRegistration", now)
                    ELSE [call EXCEPT !.pc = "auth"]
  /\ out' = Quiet
  /\ UNCHANGED <<clockVars, recentKeys, uuid, registryVars, socketVars, gatewayVars, inflight,
                 listenerVars, handlerHist, connHist, sendCount, apnsConfig, activeConnections,
                 listeners, livenessVars, recording>> /\ lastEvt' = NoEvt
  /\ Record

\* resolveApnsAuthConfigFromEnv settles; with credentials sendApnsAlert is called
SendTextAuth(ok) ==
  /\ sendCall.pc = "auth"
  /\ sendCall' =
       IF ~ok THEN sendTextReturn(sendCall, "noCredentials", now)
       ELSE [sendCall EXCEPT
               !.pc = "push",
               !.alerts = Append(@, ApnsAlert(sendCall.to, sendCall.messageId, sendCall.text,
                                              sendCall.registration))]
  /\ out' = Quiet
  /\ UNCHANGED <<clockVars, recentKeys, uuid, registryVars, socketVars, gatewayVars, inflight,
                 listenerVars, handlerHist, connHist, sendCount, apnsConfig, activeConnections,
                 listeners, livenessVars, recording>> /\ lastEvt' = NoEvt
  /\ Record

\* sendApnsAlert settles: delivered, rejected by the service, or thrown
SendTextPush(outcome) ==
  /\ sendCall.pc = "push"
  /\ sendCall' = sendTextReturn(sendCall, outcome, now)
  /\ out' = Quiet
  /\ UNCHANGED <<clockVars, recentKeys, uuid, registryVars, socketVars, gatewayVars, inflight,
                 listenerVars, handlerHist, connHist, sendCount, apnsConfig, activeConnections,
                 listeners, livenessVars, recording>> /\ lastEvt' = NoEvt
  /\ Record

\* ---- setup.ts: the gateway connection registry ---------------------------------
\* isWsClientConnected(deviceId)
isWsClientConnected(cl, rs, d) == MapHas(cl, d) /\ rs[cl[d]] = "OPEN"

\* isDeviceConnected(deviceId)
isDeviceConnected(active, cl, rs, d) == d \in active \/ isWsClientConnected(cl, rs, d)

\* registerConnection(deviceId)
RegisterConnection(d) ==
  /\ UNCHANGED <<sendCall, sendCount, apnsConfig, listeners, livenessVars, recording>>
  /\ lastEvt' = NoEvt
  /\ activeConnections' = activeConnections \cup {d}
  /\ out' = Quiet
  /\ UNCHANGED <<clockVars, recentKeys, uuid, registryVars, socketVars, gatewayVars, inflight,
                 listenerVars, handlerHist, connHist>>
  /\ Record

\* unregisterConnection(deviceId)
UnregisterConnection(d) ==
  /\ UNCHANGED <<sendCall, sendCount, apnsConfig, listeners, livenessVars, recording>>
  /\ lastEvt' = NoEvt
  /\ activeConnections' = activeConnections \ {d}
  /\ out' = Quiet
  /\ UNCHANGED <<clockVars, recentKeys, uuid, registryVars, socketVars, gatewayVars, inflight,
                 listenerVars, handlerHist, connHist>>
  /\ Record

\* ---- direct calls of the exported functions --------------------------------
RegisterDeviceSessionCall(d, s) ==
  LET reg == registerDeviceSession(Registry(deviceToSessions, sessionToDevices), d, s)
  IN /\ UNCHANGED <<outboundVars, listeners, livenessVars, recording>> /\ lastEvt' = NoEvt
     /\ deviceToSessions' = reg.d2s
     /\ sessionToDevices' = reg.s2d
     /\ UNCHANGED <<clockVars, recentKeys, uuid, socketVars, gatewayVars, inflight,
                    listenerVars, handlerHist, connHist>> /\ out' = Quiet
  /\ Record

UnregisterDeviceCall(d) ==
  LET reg == unregisterDevice(Registry(deviceToSessions, sessionToDevices), d)
  IN /\ UNCHANGED <<outboundVars, listeners, livenessVars, recording>> /\ lastEvt' = NoEvt
     /\ deviceToSessions' = reg.d2s
     /\ sessionToDevices' = reg.s2d
     /\ UNCHANGED <<clockVars, recentKeys, uuid, socketVars, gatewayVars, inflight,
                    listenerVars, handlerHist, connHist>> /\ out' = Quiet
  /\ Record

ClearSessionRegistryCall ==
  LET reg == clearSessionRegistry(Registry(deviceToSessions, sessionToDevices))
  IN /\ UNCHANGED <<outboundVars, listeners, livenessVars, recording>> /\ lastEvt' = NoEvt
     /\ deviceToSessions' = reg.d2s
     /\ sessionToDevices' = reg.s2d
     /\ UNCHANGED <<clockVars, recentKeys, uuid, socketVars, gatewayVars, inflight,
                    listenerVars, handlerHist, connHist>> /\ out' = Quiet
  /\ Record

\* handleWsMessage called on a socket the caller holds
HandleWsMessageCall(c, d, raw) ==
  /\ UNCHANGED <<outboundVars, listeners, livenessVars, recording>> /\ lastEvt' = NoEvt
  /\ HandleWsMessage(c, d, raw)
  /\ uuid' <= MaxUuid
  /\ UNCHANGED <<clockVars, socketVars, gatewayVars, listenerVars, connHist>>
  /\ Record

\* ---- initial states --------------------------------------------------------
NoValid == [n |-> 0, device |-> Null, sessionKey |-> Null, key |-> Null]
NoHist == [handled |-> FALSE, errored |-> FALSE]

InitCommon ==
  /\ now = 0
  /\ nextSweep = SWEEP_INTERVAL
  /\ recentKeys = EmptyMap
  /\ deviceToSessions = EmptyMap
  /\ sessionToDevices = EmptyMap
  /\ closeCode = [c \in Conns |-> 0]
  /\ authenticated = [c \in Conns |-> FALSE]
  /\ deviceId = [c \in Conns |-> Null]
  /\ authTimer = [c \in Conns |-> FALSE]
  /\ clients = EmptyMap
  /\ out = Quiet
  /\ inflight = {}
  /\ activeDispatchRunIds = {}
  /\ runBuffers = EmptyMap
  /\ lastValid = NoValid
  /\ dispatchCount = [k \in ClientKeys |-> 0]
  /\ acceptedAt = [k \in ClientKeys |-> -1]
  /\ connHist = [c \in Conns |-> NoHist]
  /\ sendCount = 0
  /\ activeConnections = {}
  /\ lastEvt = NoEvt
  /\ pongReceived = [c \in Conns |-> TRUE]
  /\ pingTimer = [c \in Conns |-> FALSE]
  /\ probes = [c \in Conns |-> NoProbes]
  /\ frameLog = Quiet

\* the plugin is registered: the server listens, the listener is subscribed, no connection yet
Init ==
  /\ InitCommon
  /\ uuid = 0
  /\ deliveredMessageIds = <<>>
  /\ readyState = [c \in Conns |-> "NONE"]
  /\ receiving = [c \in Conns |-> FALSE]
  /\ unsubscribe = TRUE
  /\ apnsConfig = FALSE
  /\ sendCall = NoSend
  /\ listeners = 1
  /\ recording = FALSE

\* the modules are loaded and the caller holds open sockets; nothing is started
InitModules ==
  /\ InitCommon
  /\ uuid = 0
  /\ deliveredMessageIds = <<>>
  /\ readyState = [c \in Conns |-> "OPEN"]
  /\ receiving = [c \in Conns |-> FALSE]
  /\ unsubscribe = FALSE
  /\ apnsConfig = FALSE
  /\ sendCall = NoSend
  /\ listeners = 0
  /\ recording = FALSE

\* ---- specifications ----------------------------------------------------------
\* the running plugin seen from one connection slot at a time: gateway, handler,
\* dispatch callbacks and event listener. The clock does not advance.
Next ==
  \/ \E c \in PluginConns : Connect(c)
  \/ \E c \in PluginConns, raw \in GatewayFrames : OnMessage(c, raw)
  \/ \E c \in PluginConns : AuthTimeout(c)
  \/ \E c \in PluginConns : PeerClose(c)
  \/ \E c \in PluginConns : CloseEvent(c)
  \/ \E c \in PluginConns : ErrorEvent(c)
  \/ \E r \in inflight : DispatchDeliver(r)
  \/ \E r \in inflight : DispatchOnError(r)
  \/ \E r \in inflight : DispatchResolve(r)
  \/ \E r \in inflight : DispatchReject(r)
  \/ AgentEvent

Spec == Init /\ [][Next]_vars

\* the gateway with competing connections: connection lifecycle, authentication, the
\* handler behind it and the settling of its dispatches. The clock does not advance.
NextGateway ==
  \/ \E c \in Conns : Connect(c)
  \/ \E c \in Conns, raw \in GatewayFrames : OnMessage(c, raw)
  \/ \E c \in Conns : AuthTimeout(c)
  \/ \E c \in Conns : PeerClose(c)
  \/ \E c \in Conns : CloseEvent(c)
  \/ \E c \in Conns : ErrorEvent(c)
  \/ \E r \in inflight : DispatchResolve(r)
  \/ \E r \in inflight : DispatchReject(r)

SpecGateway == Init /\ [][NextGateway]_vars

\* the handler called directly, with the clock and the cleanup interval running
NextHandler ==
  \/ \E c \in Sockets, d \in Devices, raw \in HandlerFrames : HandleWsMessageCall(c, d, raw)
  \/ \E r \in inflight : DispatchDeliver(r)
  \/ \E r \in inflight : DispatchOnError(r)
  \/ \E r \in inflight : DispatchResolve(r)
  \/ \E r \in inflight : DispatchReject(r)
  \/ Tick
  \/ Sweep

SpecHandler == InitModules /\ [][NextHandler]_vars

\* the session registry called directly
NextRegistry ==
  \/ \E d \in RegistryDevices, s \in RegistrySessions : RegisterDeviceSessionCall(d, s)
  \/ \E d \in RegistryDevices : UnregisterDeviceCall(d)
  \/ ClearSessionRegistryCall

SpecRegistry == InitModules /\ [][NextRegistry]_vars

\* the devices that authenticate here hold the gateway token
OutboundAuthFrames == {f \in AuthFrames : tokenAccepted(f) /\ f.deviceId # Null}

\* the devices that have sent messages, and so hold session mappings, and that the setup
\* calls register in the gateway connection registry
MappedDevices == 1..MaxMappedDevices

\* the plugin is registered and the static configuration is either way
InitOutbound ==
  /\ InitCommon
  /\ uuid = 0
  /\ deliveredMessageIds = <<>>
  /\ readyState = [c \in Conns |-> "NONE"]
  /\ receiving = [c \in Conns |-> FALSE]
  /\ unsubscribe = TRUE
  /\ apnsConfig \in BOOLEAN
  /\ sendCall = NoSend
  /\ listeners = 1
  /\ recording = FALSE

\* the outbound adapter next to the gateway: devices connect, authenticate and go away,
\* sessions are registered, and sendText is called and runs through its awaits
NextOutbound ==
  \/ \E c \in PluginConns : Connect(c)
  \/ \E c \in PluginConns, raw \in OutboundAuthFrames : OnMessage(c, raw)
  \/ \E c \in PluginConns : PeerClose(c)
  \/ \E c \in PluginConns : CloseEvent(c)
  \/ \E d \in MappedDevices, s \in Sessions : RegisterDeviceSessionCall(d, s)
  \/ \E d \in MappedDevices : RegisterConnection(d)
  \/ \E d \in MappedDevices : UnregisterConnection(d)
  \/ \E d \in Devices, text \in OutboundTexts : SendTextBegin(d, text)
  \/ \E outcome \in {"found", "null", "throws"} : SendTextLookup(outcome)
  \/ \E ok \in BOOLEAN : SendTextAuth(ok)
  \/ \E outcome \in {"delivered", "rejected", "threw"} : SendTextPush(outcome)

SpecOutbound == InitOutbound /\ [][NextOutbound]_vars

\* the texts of the push path: empty, short, and every length around the two limits,
\* made of letters only or ending with three dots of their own
PushTextLengths ==
  0..4 \cup ((BODY_KEPT - 2)..(BODY_LIMIT + 4))
       \cup ((MAX_PAYLOAD_TEXT_LENGTH - 4)..(MAX_PAYLOAD_TEXT_LENGTH + 4))

PushTexts ==
  {Rep("A", n) : n \in PushTextLengths}
  \cup {Rep("A", n - 3) \o "..." : n \in {m \in PushTextLengths : m >= 3}}

\* a sendText for a device without connection has resolved a registration and awaits the
\* push credentials
InitPush ==
  /\ InitCommon
  /\ uuid = 0
  /\ deliveredMessageIds = <<>>
  /\ readyState = [c \in Conns |-> "NONE"]
  /\ receiving = [c \in Conns |-> FALSE]
  /\ unsubscribe = TRUE
  /\ apnsConfig = FALSE
  /\ \E d \in Devices, text \in PushTexts :
       sendCall = [NoSend EXCEPT !.pc = "auth", !.to = d, !.text = text,
                                 !.messageId = randomUUID(0), !.lookup = "found",
                                 !.registration = "lookup"]
  /\ listeners = 1
  /\ recording = FALSE

\* the push path of sendText on its own
NextPush ==
  \/ \E ok \in BOOLEAN : SendTextAuth(ok)
  \/ \E outcome \in {"delivered", "rejected", "threw"} : SendTextPush(outcome)

SpecPush == InitPush /\ [][NextPush]_vars

\* the runs and the sessions of the agent events, and the devices that hold sessions
ListenerRuns == 61..(60 + MaxListenerRuns)
ListenerSessions == 1..MaxListenerSessions

\* the sessions of the agent's runs: those of the devices and one that no device has named
EventSessions == 1..(MaxListenerSessions + 1)

\* the agent runtime emits an event while the listener is subscribed
ListenerEvent ==
  \E evt \in AgentEvts(ListenerRuns, EventSessions) :
    OnAgentEvent(evt) /\ uuid' <= MaxListenerUuid

\* the event listener next to the gateway: devices connect, authenticate and go away,
\* sessions are registered, runs are marked as dispatches and released, events arrive
NextListener ==
  \/ \E c \in Conns : Connect(c)
  \/ \E c \in Conns, raw \in OutboundAuthFrames : OnMessage(c, raw)
  \/ \E c \in Conns : CloseEvent(c)
  \/ \E d \in Devices, s \in ListenerSessions : RegisterDeviceSessionCall(d, s)
  \/ \E k \in ListenerRuns : MarkDispatchActive(k)
  \/ \E k \in ListenerRuns : MarkDispatchComplete(k)
  \/ ListenerEvent

SpecListener == Init /\ [][NextListener]_vars

\* the frames of the exchange under capture: the authentication of one device and its
\* well-formed messages, with a key of the client or without
DispatchFrames ==
  {f \in OutboundAuthFrames : f.deviceId = 1}
  \cup {f \in MessageFrames : f.sessionKey \in GatewaySessions /\ f.text = "hi"}

\* the plugin is registered and the frames written to the sockets are captured
InitDispatch ==
  /\ InitCommon
  /\ uuid = 0
  /\ deliveredMessageIds = <<>>
  /\ readyState = [c \in Conns |-> "NONE"]
  /\ receiving = [c \in Conns |-> FALSE]
  /\ unsubscribe = TRUE
  /\ apnsConfig = FALSE
  /\ sendCall = NoSend
  /\ listeners = 1
  /\ recording = TRUE

\* one connection under capture: the device authenticates and sends messages, the dispatch
\* collaborator calls deliver and onError and settles in any order, and the connection
\* goes away
NextDispatch ==
  \/ \E c \in PluginConns : Connect(c)
  \/ \E c \in PluginConns, raw \in DispatchFrames : OnMessage(c, raw)
  \/ \E c \in PluginConns : PeerClose(c)
  \/ \E c \in PluginConns : CloseEvent(c)
  \/ \E r \in inflight : DispatchDeliver(r)
  \/ \E r \in inflight : DispatchOnError(r)
  \/ \E r \in inflight : DispatchResolve(r)
  \/ \E r \in inflight : DispatchReject(r)

SpecDispatch == InitDispatch /\ [][NextDispatch]_vars

\* the runs of the agent while the delivered set is about to fill up
PruneRuns == 71..(70 + MaxPruneRuns)

\* the plugin has been running for long: the listener has completed nearly DELIVERED_CAP
\* proactive runs, or that many, each of which left its message identifier in the
\* delivered set
InitPrune ==
  /\ InitCommon
  /\ readyState = [c \in Conns |-> "NONE"]
  /\ receiving = [c \in Conns |-> FALSE]
  /\ unsubscribe = TRUE
  /\ apnsConfig = FALSE
  /\ sendCall = NoSend
  /\ listeners = 1
  /\ recording = FALSE
  /\ \E n \in {DELIVERED_CAP - 1, DELIVERED_CAP} :
       /\ uuid = n
       /\ deliveredMessageIds = [i \in 1..n |-> randomUUID(i - 1)]

\* the agent runtime emits an event of one of the late runs
PruneEvent ==
  \E evt \in AgentEvts(PruneRuns, ListenerSessions) :
    OnAgentEvent(evt) /\ uuid' <= DELIVERED_CAP + MaxPruneUuid

\* the event listener of the long-running plugin: sessions are registered and dropped, runs
\* are marked as dispatches and released, events arrive
NextPrune ==
  \/ \E d \in MappedDevices, s \in ListenerSessions : RegisterDeviceSessionCall(d, s)
  \/ \E d \in MappedDevices : UnregisterDeviceCall(d)
  \/ \E k \in PruneRuns : MarkDispatchActive(k)
  \/ \E k \in PruneRuns : MarkDispatchComplete(k)
  \/ PruneEvent

SpecPrune == InitPrune /\ [][NextPrune]_vars

\* the gateway with the liveness check running: connections come, authenticate, answer
\* the probes or not, and go away
NextLiveness ==
  \/ \E c \in Conns : Connect(c)
  \/ \E c \in Conns, raw \in OutboundAuthFrames : OnMessage(c, raw)
  \/ \E c \in Conns : PeerClose(c)
  \/ \E c \in Conns : CloseEvent(c)
  \/ \E c \in Conns : ErrorEvent(c)
  \/ \E c \in Conns : PingTick(c)
  \/ \E c \in Conns : Pong(c)

SpecLiveness == Init /\ [][NextLiveness]_vars

\* the handler called directly with every kind of frame while its dispatches deliver and
\* settle; the clock stands still
NextValidation ==
  \/ \E c \in Sockets, d \in Devices, raw \in HandlerFrames : HandleWsMessageCall(c, d, raw)
  \/ \E r \in inflight : DispatchDeliver(r)
  \/ \E r \in inflight : DispatchResolve(r)
  \/ \E r \in inflight : DispatchReject(r)

SpecValidation == InitModules /\ [][NextValidation]_vars

\* the event listener started and stopped while the plugin runs: a device connects,
\* authenticates and goes away, sessions are registered, runs are marked as dispatches,
\* events are emitted whether or not the listener is subscribed
NextForwarder ==
  \/ \E c \in PluginConns : Connect(c)
  \/ \E c \in PluginConns, raw \in OutboundAuthFrames : OnMessage(c, raw)
  \/ \E c \in PluginConns : CloseEvent(c)
  \/ \E d \in Devices, s \in ListenerSessions : RegisterDeviceSessionCall(d, s)
  \/ \E k \in ListenerRuns : MarkDispatchActive(k)
  \/ ListenerEvent
  \/ EmitUnheard
  \/ StartAgentEventListener
  \/ StopAgentEventListener

SpecForwarder == Init /\ [][NextForwarder]_vars

\* the events of proactive runs that the listener forwards: text deltas and the end of the
\* run, for the sessions of the devices
FanOutEvts ==
  {e \in AgentEvts(ListenerRuns, ListenerSessions) :
     /\ e.sessionKey # Null
     /\ \/ e.stream = "assistant" /\ e.text # ""
        \/ e.stream = "lifecycle" /\ e.phase = "end"}

\* the agent runtime emits one of them
FanOutEvent ==
  \E evt \in FanOutEvts :
    /\ OnAgentEvent(evt)
    /\ uuid' <= MaxListenerUuid
    /\ \A c \in Conns : Len(frameLog'[c]) <= MaxFanLog

\* the fan-out of the listener under capture: two connections come, authenticate as either
\* device, start closing and go away, sessions are registered, and the events of a
\* proactive run arrive
NextFanOut ==
  \/ \E c \in Conns : Connect(c)
  \/ \E c \in Conns, raw \in OutboundAuthFrames : ~authenticated[c] /\ OnMessage(c, raw)
  \/ \E c \in Conns : PeerClose(c)
  \/ \E c \in Conns : CloseEvent(c)
  \/ \E d \in Devices, s \in ListenerSessions : RegisterDeviceSessionCall(d, s)
  \/ FanOutEvent

SpecFanOut == InitDispatch /\ [][NextFanOut]_vars

\* ---- properties of the session registry ------------------------------------
Rel(reg) == {<<d, s>> \in (DOMAIN reg.d2s) \X (DOMAIN reg.s2d) : s \in Range(reg.d2s[d])}
RelInv(reg) == {<<d, s>> \in (DOMAIN reg.d2s) \X (DOMAIN reg.s2d) : d \in Range(reg.s2d[s])}
CurrentRegistry == Registry(deviceToSessions, sessionToDevices)

\* C6: the two indexes of the Session Registry agree (D is in the device set of S iff S is
\* in the session set of D) and neither index holds a key with an empty set.
C6_IndexesAgree ==
  LET reg == CurrentRegistry IN
  /\ \A d \in DOMAIN reg.d2s : \A s \in Range(reg.d2s[d]) :
       MapHas(reg.s2d, s) /\ d \in Range(reg.s2d[s])
  /\ \A s \in DOMAIN reg.s2d : \A d \in Range(reg.s2d[s]) :
       MapHas(reg.d2s, d) /\ s \in Range(reg.d2s[d])
  /\ \A d \in DOMAIN reg.d2s : Len(reg.d2s[d]) > 0
  /\ \A s \in DOMAIN reg.s2d : Len(reg.s2d[s]) > 0

\* a registry in which one device holds two sessions, one session holds two devices, and
\* some device holds no mapping
C6_Witness ==
  /\ \E d \in DOMAIN deviceToSessions : Len(deviceToSessions[d]) >= 2
  /\ \E s \in DOMAIN sessionToDevices : Len(sessionToDevices[s]) >= 2
  /\ \E d \in RegistryDevices : ~MapHas(deviceToSessions, d)

\* C7: unregisterDevice(D) changes only the pairs that involve D, in both indexes, and is
\* the identity on a registry that has no mapping for D.
C7_UnregisterFrame ==
  LET reg == CurrentRegistry IN
  \A d \in RegistryDevices :
    LET after == unregisterDevice(reg, d) IN
    /\ \A e \in RegistryDevices \ {d} : \A s \in RegistrySessions :
         /\ (<<e, s>> \in Rel(after)) = (<<e, s>> \in Rel(reg))
         /\ (<<e, s>> \in RelInv(after)) = (<<e, s>> \in RelInv(reg))
         /\ getSessionsForDevice(after, e) = getSessionsForDevice(reg, e)
    /\ ~MapHas(reg.d2s, d) => after = reg

\* a session shared by two devices, one of which is also in another session, next to a
\* device without any mapping
C7_Witness ==
  /\ \E s \in DOMAIN sessionToDevices : Len(sessionToDevices[s]) >= 2
  /\ \E d \in DOMAIN deviceToSessions : Len(deviceToSessions[d]) >= 2
  /\ \E d \in RegistryDevices : ~MapHas(deviceToSessions, d) /\ d > 1

\* ---- properties of the inbound handler -------------------------------------
\* this step is the handling of a valid message that carries client key k
HandledKey(k) == lastValid'.n = lastValid.n + 1 /\ lastValid'.key = k

\* the frames this step wrote, on whichever connection
Written(o) == UNION {Range(o[c]) : c \in Conns}

WithinTtl(k) == acceptedAt[k] # -1 /\ now < acceptedAt[k] + IDEMPOTENCY_TTL_MS

\* C2: of two valid messages carrying client key K, the second handled before K's TTL has
\* elapsed, the first is acknowledged "started" and dispatched, the second is acknowledged
\* "duplicate" and not dispatched: one dispatch in total.
C2_DuplicateWithinTtl ==
  [][\A k \in ClientKeys :
       /\ (HandledKey(k) /\ acceptedAt[k] = -1) =>
            /\ dispatchCount'[k] = 1
            /\ AckFrame(k, "started") \in Written(out')
            /\ AckFrame(k, "duplicate") \notin Written(out')
       /\ (HandledKey(k) /\ WithinTtl(k)) =>
            /\ dispatchCount'[k] = dispatchCount[k]
            /\ inflight' = inflight
            /\ Written(out') = {AckFrame(k, "duplicate")}
       /\ WithinTtl(k) => dispatchCount'[k] = dispatchCount[k]
    ]_vars

\* a second message with the key of a dispatched one has just been acknowledged "duplicate"
C2_Witness ==
  \E k \in ClientKeys :
    /\ lastValid.n >= 2 /\ lastValid.key = k
    /\ dispatchCount[k] = 1
    /\ AckFrame(k, "duplicate") \in Written(out)
    /\ now > acceptedAt[k]

\* C3: a valid message with client key K handled at or after K's recorded expiry time,
\* swept or not, is treated as new: acknowledged "started", dispatched, and K is recorded
\* again with a fresh TTL.
C3_ExpiredKeyIsNew ==
  [][\A k \in ClientKeys :
       (HandledKey(k) /\ acceptedAt[k] # -1 /\ now >= acceptedAt[k] + IDEMPOTENCY_TTL_MS) =>
         /\ dispatchCount'[k] = dispatchCount[k] + 1
         /\ Cardinality(inflight') = Cardinality(inflight) + 1
         /\ AckFrame(k, "started") \in Written(out')
         /\ AckFrame(k, "duplicate") \notin Written(out')
         /\ MapHas(recentKeys', k) /\ recentKeys'[k] = now + IDEMPOTENCY_TTL_MS
         /\ acceptedAt'[k] = now
    ]_vars

\* a key was dispatched a second time exactly at its expiry time, its entry not yet swept
C3_Witness ==
  \E k \in ClientKeys :
    /\ dispatchCount[k] = 2
    /\ acceptedAt[k] = IDEMPOTENCY_TTL_MS
    /\ nextSweep = now
    /\ AckFrame(k, "started") \in Written(out)

\* C4 (as claimed): after every valid message of device D naming session S, the duplicates
\* included, S is in getSessionsForDevice(D) and D is in getDevicesForSession(S).
C4_RegisteredAfterEveryValidMessage ==
  [][lastValid'.n = lastValid.n + 1 =>
       LET reg == Registry(deviceToSessions', sessionToDevices') IN
       /\ lastValid'.sessionKey \in Range(getSessionsForDevice(reg, lastValid'.device))
       /\ lastValid'.device \in Range(getDevicesForSession(reg, lastValid'.sessionKey))
    ]_vars

\* ---- properties of the gateway ---------------------------------------------
\* this step ran the close or the error handler of connection c
ClosedOrErrored(c) ==
  \/ readyState[c] # "CLOSED" /\ readyState'[c] = "CLOSED"
  \/ ~connHist[c].errored /\ connHist'[c].errored

\* C5: after the close or error event of the connection of device D, D has no session and
\* is in no session's device set, and every other device keeps its sessions and its
\* membership in every session's device set.
C5_CloseUnregistersOnlyDevice ==
  [][\A c \in Conns :
       (ClosedOrErrored(c) /\ deviceId[c] # Null) =>
         LET d == deviceId[c]
             before == Registry(deviceToSessions, sessionToDevices)
             after == Registry(deviceToSessions', sessionToDevices')
         IN /\ getSessionsForDevice(after, d) = <<>>
            /\ \A s \in DOMAIN after.s2d : d \notin Range(getDevicesForSession(after, s))
            /\ \A e \in Devices \ {d} :
                 /\ getSessionsForDevice(after, e) = getSessionsForDevice(before, e)
                 /\ \A s \in Sessions :
                      (e \in Range(getDevicesForSession(after, s)))
                        = (e \in Range(getDevicesForSession(before, s)))
    ]_vars

\* the connection of a device that had a message accepted is closed and the device has no
\* mapping left, while another device is still mapped to the session they shared
C5_Witness ==
  \E c \in Conns, r \in inflight :
    /\ readyState[c] = "CLOSED" /\ deviceId[c] # Null /\ r.conn = c
    /\ ~MapHas(deviceToSessions, deviceId[c])
    /\ \E e \in DOMAIN deviceToSessions :
         e # deviceId[c] /\ r.sessionKey \in Range(deviceToSessions[e])

\* C8 (as claimed): a connection that sent a non-auth frame before authenticating (and was
\* closed for it with the protocol-error code) never has a frame passed to the handler.
C8_NoHandlerAfterNonAuthFrame ==
  \A c \in Conns : closeCode[c] = CLOSE_EXPECTED_AUTH => ~connHist[c].handled

\* C9 (as claimed): a connection that attempted authentication with a wrong token (and was
\* closed for it) is never stored in the connection registry.
C9_WrongTokenNeverRegistered ==
  \A c \in Conns :
    closeCode[c] = CLOSE_AUTH_FAILED => \A d \in DOMAIN clients : clients[d] # c

\* this step is the successful authentication of connection c
Authenticates(c) == ~authenticated[c] /\ authenticated'[c]

\* C10 (as claimed): when a connection authenticates for a device that already has a
\* registered connection, that first connection is closed with the connection-replaced
\* code, and the device is registered once, with the second connection.
C10_EvictionClosesWithReplacedCode ==
  [][\A c \in Conns :
       (Authenticates(c) /\ MapHas(clients, deviceId'[c])) =>
         LET d == deviceId'[c]
             first == clients[d]
         IN /\ readyState'[first] # "OPEN"
            /\ closeCode'[first] = CLOSE_REPLACED
            /\ MapHas(clients', d) /\ clients'[d] = c
    ]_vars

\* C10 (amended): the first connection is closed with the connection-replaced code when it
\* is still open; when it is already closing it keeps the code it is closing with. Either
\* way it is not open afterwards, the device is registered once, with the second
\* connection, and no other device's registration changes.
C10_EvictionReplacesRegistration ==
  [][\A c \in Conns :
       (Authenticates(c) /\ MapHas(clients, deviceId'[c])) =>
         LET d == deviceId'[c]
             first == clients[d]
         IN /\ first # c
            /\ readyState'[first] # "OPEN"
            /\ readyState[first] = "OPEN" =>
                 readyState'[first] = "CLOSING" /\ closeCode'[first] = CLOSE_REPLACED
            /\ readyState[first] # "OPEN" =>
                 readyState'[first] = readyState[first] /\ closeCode'[first] = closeCode[first]
            /\ MapHas(clients', d) /\ clients'[d] = c
            /\ \A e \in (DOMAIN clients) \ {d} : MapHas(clients', e) /\ clients'[e] = clients[e]
            /\ DOMAIN clients' = DOMAIN clients
    ]_vars

\* an open first connection was evicted by a second one of the same device
C10_Witness ==
  \E first \in Conns, c \in Conns :
    /\ first # c
    /\ deviceId[first] # Null /\ deviceId[first] = deviceId[c]
    /\ closeCode[first] = CLOSE_REPLACED /\ readyState[first] = "CLOSING"
    /\ MapHas(clients, deviceId[c]) /\ clients[deviceId[c]] = c
    /\ readyState[c] = "OPEN"

\* ---- properties of the dispatch / event listener interplay ------------------
\* C1 (as claimed): while a dispatch with run identifier K is in flight, K is in the
\* active-dispatch marker set (so the listener drops every event of run K).
C1_InflightRunIsMarked ==
  \A r \in inflight : r.runId \in activeDispatchRunIds

\* the listener has written a content frame of a run on the connection whose dispatch of
\* the same run is still in flight
C1_ForwardedDuringDispatch ==
  \E r \in inflight :
    /\ MapHas(runBuffers, r.runId)
    /\ AgentTextFrame(r.sessionKey, runBuffers[r.runId], "delta") \in Range(out[r.conn])

\* ---- properties of the close / error handlers ------------------------------
\* C11: the close or error handler of a connection removes the entry of its device in the
\* connection registry only if that connection is the one registered: it removes exactly
\* that entry then, and otherwise leaves the registry as it is, so that the newer
\* connection of the device stays registered whenever the evicted one's event is handled.
C11_CloseKeepsNewerConnection ==
  [][\A c \in Conns :
       (ClosedOrErrored(c) /\ deviceId[c] # Null) =>
         LET d == deviceId[c] IN
         /\ (MapHas(clients, d) /\ clients[d] = c) => clients' = MapDelete(clients, d)
         /\ ~(MapHas(clients, d) /\ clients[d] = c) => clients' = clients
    ]_vars

\* the evicted connection's close event has been handled and the newer connection of the
\* same device is open and registered
C11_Witness ==
  \E first \in Conns, c \in Conns :
    /\ first # c
    /\ deviceId[first] # Null /\ deviceId[first] = deviceId[c]
    /\ closeCode[first] = CLOSE_REPLACED /\ readyState[first] = "CLOSED"
    /\ readyState[c] = "OPEN"
    /\ MapHas(clients, deviceId[c]) /\ clients[deviceId[c]] = c

\* ---- properties of the outbound adapter --------------------------------------
\* this step is a call of sendText
SendTextCalled == sendCount' = sendCount + 1

\* an open connection is registered for device d
HasOpenConnection(d) == d \in DOMAIN clients /\ readyState[clients[d]] = "OPEN"

Resolvable(call) == call.lookup = "found" \/ apnsConfig

\* C13 (as claimed): a sendText that returned without an open connection has called
\* sendApnsAlert exactly once if a registration resolved by either path, and not at all if
\* none did.
C13_PushOncePerResolvableRegistration ==
  (sendCall.pc = "done" /\ sendCall.path # "connection") =>
    /\ Resolvable(sendCall) => Len(sendCall.alerts) = 1
    /\ ~Resolvable(sendCall) => Len(sendCall.alerts) = 0

\* C13 (amended): a sendText that returned without an open connection has called
\* sendApnsAlert exactly once if a registration resolved by either path and the push
\* credentials resolved, and not at all if no registration resolved or the credentials
\* were unavailable; no call ever invokes it twice.
C13_PushOnceWithRegistrationAndCredentials ==
  /\ Len(sendCall.alerts) <= 1
  /\ sendCall.pc = "push" => Len(sendCall.alerts) = 1
  /\ (sendCall.pc = "done" /\ sendCall.path # "connection") =>
       /\ (Resolvable(sendCall) /\ sendCall.path # "noCredentials") =>
            /\ Len(sendCall.alerts) = 1
            /\ sendCall.alerts[1].nodeId = sendCall.to
            /\ sendCall.alerts[1].registration
                 = IF sendCall.lookup = "found" THEN "lookup" ELSE "config"
       /\ sendCall.path = "noCredentials" => Resolvable(sendCall) /\ sendCall.alerts = <<>>
       /\ ~Resolvable(sendCall) => sendCall.path = "noRegistration" /\ sendCall.alerts = <<>>

\* a sendText without an open connection has returned after one sendApnsAlert made with the
\* registration of the static configuration, the lookup having thrown
C13_Witness ==
  /\ sendCall.pc = "done" /\ sendCall.path = "delivered"
  /\ sendCall.lookup = "throws" /\ sendCall.registration = "config"
  /\ Len(sendCall.alerts) = 1

\* the text ends with three dots
EndsWithEllipsis(t) == Len(t) >= 3 /\ SubSeq(t, Len(t) - 2, Len(t)) = "..."

\* C14: whatever the length of the text, the body of the alert has at most 200 characters
\* and the text of the payload at most 2000; each equals the original text when that is
\* within the bound, and is a cut of it otherwise (the body: its first 197 characters and
\* three dots, the payload: its first 2000 characters), so that neither ends with dots
\* that the original does not end with unless it was truncated.
C14_PushTextTruncation ==
  \A i \in 1..Len(sendCall.alerts) :
    LET a == sendCall.alerts[i]
        t == sendCall.text
    IN /\ Len(a.body) <= 200
       /\ Len(a.text) <= 2000
       /\ Len(t) <= 200 => a.body = t
       /\ Len(t) <= 2000 => a.text = t
       /\ Len(t) > 200 => a.body = SubSeq(t, 1, 197) \o "..."
       /\ Len(t) > 2000 => a.text = SubSeq(t, 1, 2000)
       /\ (EndsWithEllipsis(a.body) /\ ~EndsWithEllipsis(t)) => Len(t) > 200
       /\ (EndsWithEllipsis(a.text) /\ ~EndsWithEllipsis(t)) => Len(t) > 2000

\* an alert was sent for a text of 2001 letters: body and payload text are both cuts
C14_Witness ==
  /\ Len(sendCall.alerts) = 1
  /\ Len(sendCall.text) = 2001
  /\ Len(sendCall.alerts[1].body) = 200 /\ EndsWithEllipsis(sendCall.alerts[1].body)
  /\ Len(sendCall.alerts[1].text) = 2000 /\ ~EndsWithEllipsis(sendCall.alerts[1].text)

\* the paths on which sendText returns
ReturnPaths == {"connection", "noRegistration", "noCredentials", "delivered", "rejected", "threw"}

\* C15: sendText does not throw on a delivery failure: a lookup that throws leads on to
\* the configuration fallback, and every other settling of a collaborator leads to the
\* next step or to the return; on every path the call returns a result of the one shape
\* {channel, messageId, chatId, timestamp} with chatId the device and messageId the
\* identifier generated for the call.
C15_SameResultOnEveryPath ==
  [][sendCall' # sendCall =>
       /\ sendCall.pc = "lookup" => sendCall'.pc \in {"auth", "done"}
       /\ sendCall.pc = "auth" => sendCall'.pc \in {"push", "done"}
       /\ sendCall.pc = "push" => sendCall'.pc = "done"
       /\ sendCall'.pc = "done" =>
            /\ sendCall'.path \in ReturnPaths
            /\ DOMAIN sendCall'.result = {"channel", "messageId", "chatId", "timestamp"}
            /\ sendCall'.result.channel = "talktollm"
            /\ sendCall'.result.chatId = sendCall'.to /\ sendCall'.to \in Devices
            /\ sendCall'.result.messageId = sendCall'.messageId
            /\ sendCall'.result.messageId = randomUUID(uuid' - 1)
            /\ sendCall'.result.timestamp = now'
    ]_vars

\* sendText has returned its result after the lookup threw and sendApnsAlert threw
C15_Witness ==
  /\ sendCall.pc = "done" /\ sendCall.path = "threw" /\ sendCall.lookup = "throws"
  /\ sendCall.result = DeliveryResult(sendCall.messageId, sendCall.to, now)

\* the session key the frames and the payload of a sendText for device d should carry: the
\* first session mapped to d, in insertion order, else the device identifier
ExpectedSessionKey(reg, d) ==
  IF Len(getSessionsForDevice(reg, d)) > 0 THEN getSessionsForDevice(reg, d)[1]
  ELSE deviceAsSessionKey(d)

\* C16 (as claimed): the frames sendText writes and the payload it pushes carry the first
\* session currently mapped to the device in the Session Registry, and the device
\* identifier only when no session is mapped.
C16_SessionKeyFromRegistry ==
  [][/\ SendTextCalled =>
          \A f \in Written(out') : f.sessionKey = ExpectedSessionKey(CurrentRegistry, sendCall'.to)
     /\ (~SendTextCalled /\ sendCall'.alerts # sendCall.alerts) =>
          sendCall'.alerts[Len(sendCall'.alerts)].sessionKey
            = ExpectedSessionKey(CurrentRegistry, sendCall.to)
    ]_vars

\* sendText has written a frame keyed by the device identifier to a device that has a
\* session mapped
C16_DeviceKeyDespiteMapping ==
  /\ sendCall.pc = "done" /\ sendCall.path = "connection"
  /\ Len(getSessionsForDevice(CurrentRegistry, sendCall.to)) > 0
  /\ \E f \in Written(out) :
       /\ f.sessionKey = deviceAsSessionKey(sendCall.to)
       /\ f.sessionKey # getSessionsForDevice(CurrentRegistry, sendCall.to)[1]

\* C17 (as claimed): a sendText for a device with an open registered connection writes to
\* that connection a content frame carrying the full text and then a completion frame,
\* both with the freshly generated message identifier, which the result carries too.
C17_TextThenDoneFrames ==
  [][(SendTextCalled /\ HasOpenConnection(sendCall'.to)) =>
       LET written == out'[clients[sendCall'.to]]
           mid == sendCall'.result.messageId
       IN /\ mid = randomUUID(uuid)
          /\ Len(written) = 2
          /\ written[1].type = "agentText" /\ written[1].text = sendCall'.text
          /\ written[1].messageId = mid
          /\ written[2].type = "agentDone" /\ written[2].messageId = mid
    ]_vars

\* sendText has returned on the connection path having written the content frame alone
C17_OnlyTextFrame ==
  /\ sendCall.pc = "done" /\ sendCall.path = "connection"
  /\ MapHas(clients, sendCall.to)
  /\ Len(out[clients[sendCall.to]]) = 1
  /\ out[clients[sendCall.to]][1].type = "agentText"
  /\ out[clients[sendCall.to]][1].messageId = sendCall.result.messageId

\* ---- properties of the event listener ----------------------------------------
\* this step is the listener receiving an agent event
EventReceived == lastEvt' # NoEvt

\* the devices mapped to the session of the event that hold an open registered connection
Reachable(evt) ==
  {d \in DOMAIN clients :
     /\ evt.sessionKey \in DOMAIN sessionToDevices
     /\ d \in Range(sessionToDevices[evt.sessionKey])
     /\ readyState[clients[d]] = "OPEN"}

\* C18: an agent event whose runId is in the active-dispatch marker set when it is
\* received writes no frame on any connection and leaves the per-run buffers and the
\* delivered set unchanged; markDispatchComplete takes the runId out of the set, and a
\* text event of a run that is not in the set is forwarded to the devices of its session.
C18_ActiveRunDropped ==
  [][/\ (EventReceived /\ lastEvt'.evt.runId \in activeDispatchRunIds) =>
          /\ out' = Quiet
          /\ runBuffers' = runBuffers
          /\ deliveredMessageIds' = deliveredMessageIds
     /\ \A k \in ListenerRuns :
          (k \in activeDispatchRunIds /\ MarkDispatchComplete(k)) => k \notin activeDispatchRunIds'
     /\ (/\ EventReceived /\ lastEvt'.evt.runId \notin activeDispatchRunIds
         /\ lastEvt'.evt.stream = "assistant" /\ lastEvt'.evt.text # "") =>
          \A d \in Reachable(lastEvt'.evt) :
            \E f \in Range(out'[clients[d]]) :
              f.type = "agentText" /\ f.text = lastEvt'.evt.text
    ]_vars

\* a text event of a run marked as a dispatch has just been received and dropped, although
\* a device of its session holds an open connection
C18_Witness ==
  /\ lastEvt.wasActive /\ lastEvt.evt.runId \in activeDispatchRunIds
  /\ lastEvt.evt.stream = "assistant" /\ lastEvt.evt.text # ""
  /\ Reachable(lastEvt.evt) # {}
  /\ out = Quiet
  /\ ~MapHas(runBuffers, lastEvt.evt.runId)

\* the event carries no session key, or one that no device is mapped to
Unroutable(evt) ==
  \/ evt.sessionKey = Null
  \/ evt.sessionKey \notin DOMAIN sessionToDevices
  \/ Len(sessionToDevices[evt.sessionKey]) = 0

\* C19: an agent event without session key, or whose session key maps to no device in the
\* Session Registry when the event is received, writes no frame on any connection.
C19_UnroutableEventWritesNothing ==
  [][(EventReceived /\ Unroutable(lastEvt'.evt)) => out' = Quiet]_vars

\* a text event of a run that is no dispatch, for a session that no device is mapped to,
\* has just been received and has written nothing, while a device mapped to another
\* session holds an open connection
C19_Witness ==
  /\ lastEvt # NoEvt /\ ~lastEvt.wasActive
  /\ lastEvt.evt.stream = "assistant" /\ lastEvt.evt.text # ""
  /\ lastEvt.evt.sessionKey # Null
  /\ lastEvt.evt.sessionKey \notin DOMAIN sessionToDevices
  /\ \E d \in DOMAIN clients :
       readyState[clients[d]] = "OPEN" /\ MapHas(deviceToSessions, d)
  /\ out = Quiet

\* the event is of a run that is no dispatch and its session has a connected device
Forwardable(evt) ==
  /\ evt.runId \notin activeDispatchRunIds
  /\ ~Unroutable(evt)
  /\ Reachable(evt) # {}

\* C20: for a run that is no active dispatch and whose session has a mapped, connected
\* device, every non-empty assistant event writes exactly one content frame on that
\* device, carrying the text of the event and the message identifier of the run, which
\* is drawn at the first such event and kept until the terminal event; the first
\* lifecycle "end" or "error" that follows writes exactly one completion frame with that
\* identifier and closes the run, so that a later terminal event writes none.
C20_OneIdentifierPerRun ==
  [][/\ \A k \in DOMAIN runBuffers :
          /\ k \in DOMAIN runBuffers' => runBuffers'[k] = runBuffers[k]
          /\ k \notin DOMAIN runBuffers' =>
               /\ EventReceived /\ lastEvt'.evt.runId = k
               /\ lastEvt'.evt.stream = "lifecycle" /\ lastEvt'.evt.phase \in {"end", "error"}
     /\ (EventReceived /\ Forwardable(lastEvt'.evt)) =>
          LET evt == lastEvt'.evt IN
          /\ (evt.stream = "assistant" /\ evt.text # "") =>
               /\ evt.runId \in DOMAIN runBuffers'
               /\ evt.runId \notin DOMAIN runBuffers =>
                    runBuffers'[evt.runId] \notin Range(deliveredMessageIds)
               /\ \A d \in Reachable(evt) :
                    out'[clients[d]]
                      = <<AgentTextFrame(evt.sessionKey, runBuffers'[evt.runId], evt.text)>>
          /\ (evt.stream = "lifecycle" /\ evt.phase \in {"end", "error"}) =>
               IF evt.runId \in DOMAIN runBuffers
               THEN /\ evt.runId \notin DOMAIN runBuffers'
                    /\ runBuffers[evt.runId] \in Range(deliveredMessageIds')
                    /\ \A d \in Reachable(evt) :
                         out'[clients[d]]
                           = <<AgentDoneFrame(evt.sessionKey, runBuffers[evt.runId])>>
               ELSE out' = Quiet
    ]_vars

\* the terminal event of a run has just written the completion frame, with the message
\* identifier of the run, on the open connections of two devices of its session
C20_Witness ==
  /\ lastEvt # NoEvt /\ ~lastEvt.wasActive
  /\ lastEvt.evt.stream = "lifecycle" /\ lastEvt.evt.phase = "end"
  /\ Cardinality(Reachable(lastEvt.evt)) = 2
  /\ Len(deliveredMessageIds) > 0
  /\ \A d \in Reachable(lastEvt.evt) :
       out[clients[d]]
         = <<AgentDoneFrame(lastEvt.evt.sessionKey, deliveredMessageIds[Len(deliveredMessageIds)])>>

\* ---- properties of the frames of an exchange --------------------------------
\* the positions in a log of the frames of a type that carry a message identifier
FramesOf(L, t, mid) == {i \in 1..Len(L) : L[i].type = t /\ L[i].messageId = mid}

\* the positions in a log of the "started" acknowledgments of a key
StartedAcks(L, key) == {i \in 1..Len(L) : L[i] = AckFrame(key, "started")}

\* the message identifiers of the content and completion frames of a log
MessageIds(L) == {L[i].messageId : i \in {j \in 1..Len(L) : L[j].type \in {"agentText", "agentDone"}}}

\* C21 (as claimed): the frames the handler writes for an accepted message on an open
\* connection come in the order ack "started", typing on, any number of content frames,
\* typing off, completion: the ack is followed by typing on and precedes every content and
\* completion frame of the message, the completion frame follows typing off and every
\* content frame and is written once, and the content and completion frames of the
\* message carry the one identifier drawn when the message was accepted.
C21_FrameOrder ==
  [][\A r \in inflight \cup inflight' :
       LET L == frameLog'[r.conn]
           acks == StartedAcks(L, r.runId)
           texts == FramesOf(L, "agentText", r.messageId)
           dones == FramesOf(L, "agentDone", r.messageId)
       IN /\ \A i \in acks : i < Len(L) /\ L[i + 1] = TypingFrame(r.sessionKey, TRUE)
          /\ \A j \in texts \cup dones : \E i \in acks : i < j
          /\ \A j \in dones : j > 1 /\ L[j - 1] = TypingFrame(r.sessionKey, FALSE)
          /\ \A j \in texts : \A i \in dones : j < i - 1
          /\ Cardinality(dones) <= 1
          /\ r \notin inflight => r.messageId = randomUUID(uuid' - 1) /\ texts \cup dones = {}
          /\ Cardinality({i \in 1..Len(L) : L[i].type = "ack" /\ L[i].text = "started"}) = 1
               => MessageIds(L) \subseteq {r.messageId}
    ]_vars

\* the connection has been sent the completion frame of one message twice, the first time
\* by onError and then again when the dispatch resolved
C21_CompletedTwice ==
  \E c \in Conns, key \in ClientKeys :
    \E m \in MessageIds(frameLog[c]) :
      /\ Len(frameLog[c]) = 8
      /\ SubSeq(frameLog[c], 2, 8)
           = <<AckFrame(key, "started"), TypingFrame(1, TRUE)>>
             \o onErrorFrames(1, m) \o resolvedFrames(1, m)

\* C22 (as claimed): the completion frame is the last frame of its message identifier: no
\* content frame carrying identifier m is written to a connection after a completion
\* frame carrying m, in whatever order the dispatch collaborator calls deliver and
\* onError and settles.
C22_CompletionIsLast ==
  \A c \in Conns :
    \A m \in MessageIds(frameLog[c]) :
      \A i \in FramesOf(frameLog[c], "agentDone", m) :
        \A j \in FramesOf(frameLog[c], "agentText", m) : j < i

\* a content frame has just been written after the completion frame of the same message,
\* the dispatch of which is still in flight
C22_TextAfterCompletion ==
  \E r \in inflight :
    LET L == frameLog[r.conn] IN
    /\ Len(L) >= 2
    /\ L[Len(L) - 1] = AgentDoneFrame(r.sessionKey, r.messageId)
    /\ L[Len(L)] = AgentTextFrame(r.sessionKey, r.messageId, "chunk")
    /\ out[r.conn] = <<L[Len(L)]>>

\* this step settles dispatch r: its promise resolves or rejects
Settles(r) == r \in inflight /\ r \notin inflight'

\* C23: when the dispatch of an accepted message rejects, the handler writes on the open
\* connection an error frame, typing off and the completion frame with the identifier of
\* the message, in that order; the connection is neither closed nor unregistered and the
\* session mappings stay; and whichever way a dispatch settles, the last frame written on
\* the open connection is the completion frame of its message.
C23_RejectionCompletesExchange ==
  [][\A r \in inflight :
       /\ (DispatchReject(r) /\ readyState[r.conn] = "OPEN") =>
            /\ Len(out'[r.conn]) = 3
            /\ out'[r.conn][1].type = "error"
            /\ out'[r.conn][2] = TypingFrame(r.sessionKey, FALSE)
            /\ out'[r.conn][3] = AgentDoneFrame(r.sessionKey, r.messageId)
       /\ Settles(r) =>
            /\ readyState' = readyState /\ closeCode' = closeCode /\ receiving' = receiving
            /\ clients' = clients
            /\ deviceToSessions' = deviceToSessions /\ sessionToDevices' = sessionToDevices
       /\ (Settles(r) /\ readyState[r.conn] = "OPEN") =>
            /\ out'[r.conn] # <<>>
            /\ out'[r.conn][Len(out'[r.conn])] = AgentDoneFrame(r.sessionKey, r.messageId)
            /\ frameLog'[r.conn][Len(frameLog'[r.conn])]
                 = AgentDoneFrame(r.sessionKey, r.messageId)
    ]_vars

\* a dispatch that had delivered a chunk has rejected: the connection was sent the error
\* frame, typing off and the completion frame, and is still open and registered
C23_Witness ==
  \E c \in Conns :
    LET L == frameLog[c]
        n == Len(L)
    IN /\ n >= 4
       /\ L[n - 3].type = "agentText"
       /\ L[n - 2] = ErrorFrame("dispatch failed")
       /\ L[n - 1].type = "typing" /\ L[n - 1].text = "false"
       /\ L[n].type = "agentDone" /\ L[n].messageId = L[n - 3].messageId
       /\ out[c] = SubSeq(L, n - 2, n)
       /\ inflight = {}
       /\ readyState[c] = "OPEN"
       /\ deviceId[c] # Null /\ MapHas(clients, deviceId[c]) /\ clients[deviceId[c]] = c

\* ---- properties of the authentication timer ----------------------------------
\* C24: when the authentication timer of a connection that has not authenticated fires,
\* the open connection is sent an error frame and is closed with the auth-timeout code;
\* a successful authentication cancels the timer, so that no timer is armed on an
\* authenticated connection and a connection that authenticated before its timer fired is
\* never closed with the auth-timeout code.
C24_AuthTimeoutClosesUnauthenticated ==
  [][\A c \in Conns :
       /\ (AuthTimeout(c) /\ ~authenticated[c]) =>
            /\ readyState'[c] # "OPEN"
            /\ readyState[c] = "OPEN" =>
                 /\ out'[c] = <<ErrorFrame("auth timeout")>>
                 /\ readyState'[c] = "CLOSING"
                 /\ closeCode'[c] = CLOSE_AUTH_TIMEOUT
       /\ Authenticates(c) => ~authTimer'[c]
       /\ authenticated[c] => ~authTimer[c] /\ ~authTimer'[c]
       /\ (authenticated[c] /\ closeCode[c] # CLOSE_AUTH_TIMEOUT) =>
            closeCode'[c] # CLOSE_AUTH_TIMEOUT
    ]_vars

\* the timer of an open connection that had sent nothing has just fired: the connection
\* was sent the error frame and is closing with the auth-timeout code
C24_Witness ==
  \E c \in Conns :
    /\ ~authenticated[c] /\ ~authTimer[c]
    /\ readyState[c] = "CLOSING" /\ closeCode[c] = CLOSE_AUTH_TIMEOUT
    /\ out[c] = <<ErrorFrame("auth timeout")>>
    /\ receiving[c]

\* ---- properties of the idempotency cache -------------------------------------
\* C25: a key recorded at time t is recorded with expiry t + TTL, and no entry of the
\* cache is older than its expiry time plus one sweep interval: at every time after
\* t + TTL + one sweep interval the key is absent unless it was recorded again.
C25_NoEntryPastTtlPlusSweep ==
  [][/\ \A k \in DOMAIN recentKeys' : now' <= recentKeys'[k] + SWEEP_INTERVAL
     /\ \A k \in DOMAIN recentKeys' :
          (k \notin DOMAIN recentKeys \/ recentKeys'[k] # recentKeys[k]) =>
            recentKeys'[k] = now + IDEMPOTENCY_TTL_MS
     /\ \A k \in ClientKeys :
          (acceptedAt'[k] # -1 /\ now' > acceptedAt'[k] + IDEMPOTENCY_TTL_MS + SWEEP_INTERVAL) =>
            k \notin DOMAIN recentKeys'
    ]_vars

\* a key recorded between two sweeps, and not again since, is absent after its TTL and one
\* sweep interval have passed
C25_Witness ==
  \E k \in ClientKeys :
    /\ acceptedAt[k] # -1 /\ acceptedAt[k] % SWEEP_INTERVAL # 0
    /\ dispatchCount[k] = 1
    /\ now > acceptedAt[k] + IDEMPOTENCY_TTL_MS + SWEEP_INTERVAL
    /\ ~MapHas(recentKeys, k)

\* ---- properties of the delivered set -------------------------------------------
\* C26: after every handled agent event the delivered set holds at most 1000
\* identifiers; an insertion appends the identifier of the finished run, and when that
\* makes the set exceed 1000 the oldest inserted identifiers are the ones removed, so that
\* the set is the last 1000 of the insertion order and the identifier delivered last is a
\* member.
C26_DeliveredSetCapped ==
  [][/\ Len(deliveredMessageIds') <= 1000
     /\ IF /\ EventReceived
           /\ lastEvt'.evt.runId \notin activeDispatchRunIds /\ ~Unroutable(lastEvt'.evt)
           /\ lastEvt'.evt.stream = "lifecycle" /\ lastEvt'.evt.phase \in {"end", "error"}
           /\ lastEvt'.evt.runId \in DOMAIN runBuffers
        THEN LET mid == runBuffers[lastEvt'.evt.runId]
                 all == Append(deliveredMessageIds, mid)
                 n == Len(deliveredMessageIds')
             IN /\ n = IF Len(all) > 1000 THEN 1000 ELSE Len(all)
                /\ deliveredMessageIds'[n] = mid
                /\ \A i \in 1..n : deliveredMessageIds'[i] = all[Len(all) - n + i]
        ELSE deliveredMessageIds' = deliveredMessageIds
    ]_vars

\* the set is full after two runs have finished on top of a full set: the two oldest
\* identifiers are gone and the identifier delivered last is the newest member
C26_Witness ==
  /\ Len(deliveredMessageIds) = DELIVERED_CAP
  /\ deliveredMessageIds[1] = randomUUID(2)
  /\ deliveredMessageIds[DELIVERED_CAP] = randomUUID(uuid - 1)
  /\ lastEvt.evt.stream = "lifecycle"
  /\ runBuffers = EmptyMap

\* ---- properties of the run buffers ---------------------------------------------
\* C27 (as claimed): once a lifecycle event with phase "end" or "error" has been received
\* for a run, no buffer of that run remains, whatever the device mapping of the session
\* and the marker set of the dispatches are when the event arrives.
C27_TerminalEventDropsBuffer ==
  [][(/\ EventReceived
      /\ lastEvt'.evt.stream = "lifecycle"
      /\ lastEvt'.evt.phase \in {"end", "error"}) =>
       lastEvt'.evt.runId \notin DOMAIN runBuffers'
    ]_vars

\* the terminal event of a run has just been received while no device is mapped to its
\* session any more, and the buffer of the run is still there
C27_BufferSurvivesTerminalEvent ==
  /\ lastEvt # NoEvt /\ ~lastEvt.wasActive
  /\ lastEvt.evt.stream = "lifecycle" /\ lastEvt.evt.phase = "end"
  /\ lastEvt.evt.sessionKey # Null
  /\ lastEvt.evt.sessionKey \notin DOMAIN sessionToDevices
  /\ lastEvt.evt.runId \in DOMAIN runBuffers
  /\ \E c \in Conns : readyState[c] = "CLOSED"

\* ---- properties of the liveness check ------------------------------------------
\* this step is a liveness tick of connection c
LivenessTick(c) == probes'[c].ticks = probes[c].ticks + 1

\* C28: at a liveness tick of a connection, if no pong has arrived since the previous tick
\* the connection is terminated and its timer stopped; otherwise the response flag is set
\* false, a probe is sent on the open connection, and the flag stays false until a pong
\* arrives. Hence a connection is terminated at the second tick after its last pong at
\* the latest, and the check terminates an open connection only with a probe unanswered.
C28_LivenessCheck ==
  [][\A c \in Conns :
       /\ (LivenessTick(c) /\ ~pongReceived[c]) =>
            /\ readyState'[c] \notin {"OPEN", "CLOSED"} /\ ~receiving'[c]
            /\ ~pingTimer'[c]
            /\ probes'[c].terminated
       /\ (LivenessTick(c) /\ pongReceived[c]) =>
            /\ ~pongReceived'[c]
            /\ readyState[c] = "OPEN" => probes'[c].sent = probes[c].sent + 1
            /\ readyState'[c] = readyState[c] /\ receiving'[c] = receiving[c]
            /\ pingTimer'[c]
            /\ ~probes'[c].terminated
       /\ (~pongReceived[c] /\ pongReceived'[c]) => probes'[c].ticks = 0
       /\ probes'[c].ticks <= 2
       /\ probes'[c].ticks = 2 => probes'[c].terminated
       /\ (~probes[c].terminated /\ probes'[c].terminated) =>
            /\ probes[c].ticks >= 1
            /\ readyState[c] = "OPEN" => probes[c].sent >= 1
    ]_vars

\* an authenticated, registered connection that was sent a probe and did not answer it has
\* been terminated by the liveness check, at the second tick after its last sign of life
C28_Witness ==
  \E c \in Conns :
    /\ authenticated[c]
    /\ probes[c].terminated /\ probes[c].ticks = 2 /\ probes[c].sent = 1
    /\ readyState[c] = "CLOSING" /\ closeCode[c] = CLOSE_ABNORMAL
    /\ ~pingTimer[c] /\ ~receiving[c]
    /\ MapHas(clients, deviceId[c]) /\ clients[deviceId[c]] = c

\* ---- properties of the validation of inbound frames ----------------------------
\* the frame is one the handler rejects: malformed, of an unknown type, without session
\* key or with an ill-formed one, or with a text that is empty once trimmed
Rejected(raw) ==
  \/ raw.type \in {"invalid", "other"}
  \/ raw.type = "message" /\ raw.sessionKey \in {Null, BadSessionKey}
  \/ raw.type = "message" /\ raw.text \in {"", " "}

\* the step left everything but the frames written as it was
NoOtherEffect ==
  /\ recentKeys' = recentKeys /\ uuid' = uuid
  /\ deviceToSessions' = deviceToSessions /\ sessionToDevices' = sessionToDevices
  /\ inflight' = inflight /\ dispatchCount' = dispatchCount /\ acceptedAt' = acceptedAt
  /\ readyState' = readyState /\ closeCode' = closeCode /\ receiving' = receiving
  /\ clients' = clients

\* C29: the handling of a rejected frame writes exactly one error frame on its connection,
\* nothing on any other, and has no other effect: no key recorded, no mapping added, no
\* dispatch started, the connection not closed. The handling of a ping writes a pong and
\* nothing else.
C29_RejectedFrameOnlyError ==
  [][\A c \in Sockets, d \in Devices, raw \in HandlerFrames :
       HandleWsMessageCall(c, d, raw) =>
         /\ Rejected(raw) =>
              /\ Len(out'[c]) = 1 /\ out'[c][1].type = "error"
              /\ \A b \in Conns \ {c} : out'[b] = <<>>
              /\ NoOtherEffect
         /\ raw.type = "ping" =>
              /\ Len(out'[c]) = 1 /\ out'[c][1].type = "pong"
              /\ \A b \in Conns \ {c} : out'[b] = <<>>
              /\ NoOtherEffect
    ]_vars

\* a blank text has just been answered with the error frame, after a message of the same
\* device was accepted and while its dispatch is in flight
C29_Witness ==
  \E c \in Sockets :
    /\ out[c] = <<ErrorFrame("text is required")>>
    /\ lastValid.n = 1
    /\ Cardinality(inflight) = 1
    /\ Cardinality(DOMAIN recentKeys) = 1
    /\ readyState[c] = "OPEN"

\* ---- properties of the lifecycle of the event listener -------------------------
\* the content and completion frames a step wrote, on whichever connection
ForwardedFrames(o) == {f \in Written(o) : f.type \in {"agentText", "agentDone"}}

\* C30: stopAgentEventListener releases the subscription and empties the run buffers, the
\* delivered set and the marker set of the dispatches; startAgentEventListener changes
\* nothing while a subscription is held, so that at most one subscription is live and it
\* is live exactly when the listener holds its unsubscribe function; and while the
\* listener is stopped no event reaches it and no frame is forwarded.
C30_StartStopLifecycle ==
  [][/\ listeners' <= 1
     /\ listeners' = IF unsubscribe' THEN 1 ELSE 0
     /\ StopAgentEventListener =>
          /\ listeners' = 0 /\ ~unsubscribe'
          /\ runBuffers' = EmptyMap
          /\ deliveredMessageIds' = <<>>
          /\ activeDispatchRunIds' = {}
     /\ (StartAgentEventListener /\ unsubscribe) =>
          /\ listeners' = listeners /\ unsubscribe'
          /\ runBuffers' = runBuffers
          /\ deliveredMessageIds' = deliveredMessageIds
          /\ activeDispatchRunIds' = activeDispatchRunIds
     /\ (StartAgentEventListener /\ ~unsubscribe) => listeners' = 1 /\ unsubscribe'
     /\ ~unsubscribe =>
          /\ ForwardedFrames(out') = {}
          /\ ~EventReceived
          /\ runBuffers' = EmptyMap /\ deliveredMessageIds' = <<>>
    ]_vars

\* the listener has been stopped after it had forwarded the text of a run: its buffers and
\* its delivered set are empty and no subscription is live, while a device mapped to a
\* session holds an open connection
C30_Witness ==
  /\ ~unsubscribe /\ listeners = 0
  /\ uuid >= 1
  /\ runBuffers = EmptyMap /\ deliveredMessageIds = <<>> /\ activeDispatchRunIds = {}
  /\ \E d \in DOMAIN clients :
       readyState[clients[d]] = "OPEN" /\ MapHas(deviceToSessions, d)

\* ---- properties of the fan-out of the listener -----------------------------------
\* the connections registered for the devices that can be reached with the event
ReachableConns(evt) == {clients[d] : d \in Reachable(evt)}

\* this step is the listener receiving a text event of a run that is no dispatch
TextEventForwarded ==
  /\ EventReceived
  /\ lastEvt'.evt.runId \notin activeDispatchRunIds
  /\ lastEvt'.evt.stream = "assistant" /\ lastEvt'.evt.text # ""

\* C31: a forwarded assistant event writes its content frame exactly once on the open
\* registered connection of every device mapped to the session of the event, and nothing
\* anywhere else: a mapped device without connection, or whose connection is not open, is
\* passed over, the loop goes on to the other devices, no connection or mapping is
\* changed, and no later step writes the frame that was not sent.
C31_FanOutToOpenDevices ==
  [][/\ TextEventForwarded =>
          LET evt == lastEvt'.evt IN
          /\ \A c \in Conns :
               out'[c] = IF c \in ReachableConns(evt)
                         THEN <<AgentTextFrame(evt.sessionKey, runBuffers'[evt.runId], evt.text)>>
                         ELSE <<>>
          /\ readyState' = readyState /\ closeCode' = closeCode /\ receiving' = receiving
          /\ clients' = clients
          /\ deviceToSessions' = deviceToSessions /\ sessionToDevices' = sessionToDevices
     /\ ~EventReceived => ForwardedFrames(out') = {}
    ]_vars

\* a text event has just been forwarded for a session of two devices: the first of them
\* holds a registered connection that is closing and got nothing, the second got the frame
C31_Witness ==
  /\ lastEvt # NoEvt /\ ~lastEvt.wasActive
  /\ lastEvt.evt.stream = "assistant" /\ lastEvt.evt.text # ""
  /\ lastEvt.evt.sessionKey \in DOMAIN sessionToDevices
  /\ LET ds == sessionToDevices[lastEvt.evt.sessionKey] IN
     /\ Len(ds) = 2
     /\ MapHas(clients, ds[1]) /\ readyState[clients[ds[1]]] = "CLOSING"
     /\ out[clients[ds[1]]] = <<>>
     /\ MapHas(clients, ds[2]) /\ readyState[clients[ds[2]]] = "OPEN"
     /\ Len(out[clients[ds[2]]]) = 1 /\ out[clients[ds[2]]][1].type = "agentText"

\* ---- properties of a dispatch whose connection has gone ----------------------------
\* this step is a callback of the dispatch collaborator for dispatch r
DispatchCallback(r) ==
  DispatchDeliver(r) \/ DispatchOnError(r) \/ DispatchResolve(r) \/ DispatchReject(r)

\* C32: the closing of a connection leaves its dispatches in flight; a dispatch whose
\* connection is not open goes on to deliver, fail and settle, each of these writes
\* nothing and changes nothing but the set of the dispatches in flight, which loses the
\* dispatch exactly when it settles; and no step writes on a connection that is not open.
C32_ClosedConnectionKeepsDispatch ==
  [][/\ \A c \in Conns : readyState[c] # "OPEN" => out'[c] = <<>>
     /\ \A c \in Conns : (readyState[c] = "OPEN" /\ readyState'[c] # "OPEN") => inflight' = inflight
     /\ \A c \in Conns : (readyState[c] # "CLOSED" /\ readyState'[c] = "CLOSED") => inflight' = inflight
     /\ \A r \in inflight :
          (DispatchCallback(r) /\ readyState[r.conn] # "OPEN") =>
            /\ out' = Quiet /\ frameLog' = frameLog
            /\ readyState' = readyState /\ closeCode' = closeCode
            /\ inflight' \in {inflight, inflight \ {r}}
            /\ (DispatchResolve(r) \/ DispatchReject(r)) => inflight' = inflight \ {r}
     /\ \A r \in inflight \ inflight' : DispatchResolve(r) \/ DispatchReject(r)
    ]_vars

\* the dispatch of an accepted message has settled after its connection was closed: the
\* connection was sent the acknowledgment and typing on, and nothing since
C32_Witness ==
  \E c \in Conns :
    /\ readyState[c] = "CLOSED"
    /\ Len(frameLog[c]) = 3
    /\ frameLog[c][2].type = "ack" /\ frameLog[c][2].text = "started"
    /\ frameLog[c][3] = TypingFrame(1, TRUE)
    /\ inflight = {}
    /\ out = Quiet

\* ---- properties of the choice between connection and push -------------------------
\* C33 (as claimed): the choice of sendText follows the gateway connection registry: a
\* sendText for a device for which isDeviceConnected is true returns on the connection
\* path and never pushes, and one for a device for which it is false starts the lookup of
\* the push path.
C33_DeliveryFollowsConnectionRegistry ==
  [][SendTextCalled =>
       LET d == sendCall'.to IN
       /\ isDeviceConnected(activeConnections, clients, readyState, d) =>
            /\ sendCall'.pc = "done" /\ sendCall'.path = "connection"
            /\ sendCall'.alerts = <<>>
       /\ ~isDeviceConnected(activeConnections, clients, readyState, d) =>
            sendCall'.pc = "lookup"
    ]_vars

\* sendApnsAlert has been called for a device that is in the gateway connection registry
\* and holds no connection on the gateway
C33_PushDespiteRegisteredConnection ==
  /\ sendCall.pc = "push" /\ Len(sendCall.alerts) = 1
  /\ sendCall.to \in activeConnections
  /\ isDeviceConnected(activeConnections, clients, readyState, sendCall.to)
  /\ ~MapHas(clients, sendCall.to)

\* ---- properties of the connection registry ----------------------------------------
\* C34: every entry of the connection registry is an authenticated connection, registered
\* under the device identifier it authenticated with; an entry is put in only by the step
\* in which its connection authenticates; and once a connection has authenticated no
\* frame, a second auth frame included, changes its device identifier or registers it
\* under another identifier.
C34_RegistryHoldsAuthenticated ==
  [][/\ \A d \in DOMAIN clients' :
          /\ authenticated'[clients'[d]] /\ deviceId'[clients'[d]] = d
          /\ (d \notin DOMAIN clients \/ clients[d] # clients'[d]) => Authenticates(clients'[d])
     /\ \A c \in Conns :
          /\ Authenticates(c) => MapHas(clients', deviceId'[c]) /\ clients'[deviceId'[c]] = c
          /\ authenticated[c] =>
               /\ authenticated'[c] /\ deviceId'[c] = deviceId[c]
               /\ \A d \in DOMAIN clients' : clients'[d] = c => MapHas(clients, d) /\ clients[d] = c
    ]_vars

\* a connection that authenticated as one device has then sent a second auth frame: it was
\* answered with the error of an unknown type and is registered as before, and only once
C34_Witness ==
  \E c \in Conns :
    /\ authenticated[c] /\ deviceId[c] # Null
    /\ out[c] = <<ErrorFrame("unknown message type: auth")>>
    /\ readyState[c] = "OPEN"
    /\ {d \in DOMAIN clients : clients[d] = c} = {deviceId[c]}

\* ---- properties of the session mappings of a reconnecting device -------------------
\* C35 (as claimed): the session mappings of a device survive the late close of its
\* evicted connection: while the registered connection of device D stays registered and
\* the dispatch of a message it had accepted for session S is in flight, D stays in the
\* device set of S, whatever close or error event is handled in between.
C35_MappingSurvivesLateClose ==
  [][\A d \in DOMAIN clients : \A r \in inflight :
       (/\ r.conn = clients[d] /\ deviceId[r.conn] = d
        /\ d \in Range(getDevicesForSession(CurrentRegistry, r.sessionKey))
        /\ MapHas(clients', d) /\ clients'[d] = clients[d]
        /\ r \in inflight') =>
         d \in Range(getDevicesForSession(Registry(deviceToSessions', sessionToDevices'),
                                          r.sessionKey))
    ]_vars

\* the close event of the evicted connection has been handled after the newer connection
\* of the device had a message accepted: the newer connection is open and registered, its
\* dispatch is in flight, and the device has no session mapping left
C35_MappingLostToLateClose ==
  \E first \in Conns, c \in Conns, r \in inflight :
    /\ first # c
    /\ deviceId[first] # Null /\ deviceId[first] = deviceId[c]
    /\ closeCode[first] = CLOSE_REPLACED /\ readyState[first] = "CLOSED"
    /\ readyState[c] = "OPEN"
    /\ MapHas(clients, deviceId[c]) /\ clients[deviceId[c]] = c
    /\ r.conn = c
    /\ ~MapHas(deviceToSessions, deviceId[c])
    /\ getDevicesForSession(CurrentRegistry, r.sessionKey) = <<>>

\* ---- properties of the duplicate detection across devices --------------------------
\* C36 (as claimed): a valid message of a device with client key K is acknowledged
\* "duplicate" only if that device itself had a message with K accepted: the message of a
\* device that has had no message accepted yet is acknowledged "started" and dispatched,
\* whatever keys the messages of other devices have recorded.
C36_DuplicateOnlyForOwnKey ==
  [][\A k \in ClientKeys :
       (HandledKey(k) /\ ~MapHas(deviceToSessions, lastValid'.device)) =>
         /\ AckFrame(k, "duplicate") \notin Written(out')
         /\ AckFrame(k, "started") \in Written(out')
         /\ dispatchCount'[k] = dispatchCount[k] + 1
    ]_vars

\* the first message of a device has just been acknowledged "duplicate" and not dispatched,
\* its key having been recorded by the message of another device
C36_SuppressedByOtherDevice ==
  \E k \in ClientKeys :
    /\ lastValid.n = 2 /\ lastValid.key = k
    /\ ~MapHas(deviceToSessions, lastValid.device)
    /\ DOMAIN deviceToSessions # {}
    /\ dispatchCount[k] = 1
    /\ Written(out) = {AckFrame(k, "duplicate")}

\* C36 (amended): duplicate detection is by the key alone, for all devices and sessions
\* together: a valid message with client key K is acknowledged "duplicate" and not
\* dispatched exactly when a message with key K, of whichever device and for whichever
\* session, was accepted less than one TTL before; otherwise it is acknowledged "started"
\* and dispatched, and its device is mapped to its session.
C36_DuplicateByKeyAlone ==
  [][\A k \in ClientKeys :
       HandledKey(k) =>
         IF WithinTtl(k)
         THEN /\ Written(out') = {AckFrame(k, "duplicate")}
              /\ dispatchCount'[k] = dispatchCount[k] /\ inflight' = inflight
              /\ deviceToSessions' = deviceToSessions
         ELSE /\ AckFrame(k, "started") \in Written(out')
              /\ dispatchCount'[k] = dispatchCount[k] + 1
              /\ lastValid'.sessionKey
                   \in Range(getSessionsForDevice(Registry(deviceToSessions', sessionToDevices'),
                                                  lastValid'.device))
    ]_vars

\* ---- properties of the recorded key of a failed dispatch ---------------------------
\* C37: the key of an accepted message stays recorded when its dispatch fails: no
\* callback and no settling of a dispatch changes the idempotency cache, an entry leaves
\* the cache only in a sweep at or after its expiry time, and a message that carries the
\* key again before the TTL has elapsed is acknowledged "duplicate" and not dispatched
\* although the dispatch of the first has been rejected.
C37_KeyOutlivesFailedDispatch ==
  [][/\ \A r \in inflight : DispatchCallback(r) => recentKeys' = recentKeys
     /\ \A r \in inflight : \A k \in ClientKeys :
          (DispatchReject(r) /\ r.runId = k /\ WithinTtl(k)) =>
            MapHas(recentKeys', k) /\ now' < recentKeys'[k]
     /\ \A k \in DOMAIN recentKeys :
          k \notin DOMAIN recentKeys' => (nextSweep' # nextSweep /\ now >= recentKeys[k])
     /\ \A k \in ClientKeys :
          (HandledKey(k) /\ WithinTtl(k) /\ \A r \in inflight : r.runId # k) =>
            /\ Written(out') = {AckFrame(k, "duplicate")}
            /\ dispatchCount'[k] = dispatchCount[k] /\ inflight' = inflight
    ]_vars

\* the dispatch of a message with a client key has just been rejected, some time after the
\* message was accepted and before its TTL has elapsed: the key is still recorded with the
\* expiry it was given
C37_Witness ==
  \E k \in ClientKeys, c \in Conns :
    /\ dispatchCount[k] = 1 /\ inflight = {}
    /\ Len(out[c]) = 3 /\ out[c][1] = ErrorFrame("dispatch failed")
    /\ now > acceptedAt[k] /\ WithinTtl(k)
    /\ MapHas(recentKeys, k) /\ recentKeys[k] = acceptedAt[k] + IDEMPOTENCY_TTL_MS

\* ---- properties of the completion of an exchange -----------------------------------
\* C38 (as claimed): for every accepted message exactly one completion frame with its
\* message identifier is written on the open connection: at most one at any time, and
\* one once the dispatch has settled, however the dispatch collaborator calls deliver and
\* onError and whether it resolves or rejects.
C38_ExactlyOneCompletion ==
  [][\A r \in inflight :
       LET dones == FramesOf(frameLog'[r.conn], "agentDone", r.messageId) IN
       /\ Cardinality(dones) <= 1
       /\ (Settles(r) /\ readyState[r.conn] = "OPEN") => Cardinality(dones) = 1
    ]_vars

\* the dispatch of a message has called onError and then rejected: the open connection has
\* been sent two completion frames with the identifier of the message, the second as the
\* last frame of the rejection
C38_TwoCompletions ==
  \E c \in Conns :
    LET L == frameLog[c]
        n == Len(L)
    IN /\ n >= 6 /\ readyState[c] = "OPEN" /\ inflight = {}
       /\ L[n].type = "agentDone"
       /\ SubSeq(L, n - 5, n) = onErrorFrames(1, L[n].messageId) \o rejectedFrames(1, L[n].messageId)
       /\ Cardinality(FramesOf(L, "agentDone", L[n].messageId)) = 2

\* ---- properties of the completion frame of a proactive run --------------------------
\* device d has been sent a content frame with message identifier m, on whichever of its
\* connections
ReceivedText(d, m) ==
  \E b \in Conns : deviceId[b] = d /\ FramesOf(frameLog[b], "agentText", m) # {}

\* this step is the listener receiving the terminal event of a run that has a buffer
TerminalEventOfBufferedRun ==
  /\ EventReceived
  /\ lastEvt'.evt.stream = "lifecycle" /\ lastEvt'.evt.phase \in {"end", "error"}
  /\ lastEvt'.evt.runId \in DOMAIN runBuffers

\* C39 (as claimed): the completion frame with message identifier m is written only on
\* connections of devices that were sent a content frame with m before, and at the
\* terminal event of the run every open registered connection that was sent a content
\* frame with m is sent the completion frame with m, whatever has happened to the device
\* mapping of the session in between.
C39_CompletionFollowsContent ==
  [][/\ \A c \in Conns : \A i \in 1..Len(out'[c]) :
          out'[c][i].type = "agentDone" => ReceivedText(deviceId[c], out'[c][i].messageId)
     /\ TerminalEventOfBufferedRun =>
          LET m == runBuffers[lastEvt'.evt.runId] IN
          \A c \in Conns :
            (/\ readyState[c] = "OPEN"
             /\ deviceId[c] # Null /\ MapHas(clients, deviceId[c]) /\ clients[deviceId[c]] = c
             /\ FramesOf(frameLog[c], "agentText", m) # {}) =>
              \E i \in 1..Len(out'[c]) :
                out'[c][i].type = "agentDone" /\ out'[c][i].messageId = m
    ]_vars

\* the terminal event of a run has just been received and has written nothing: the open
\* registered connection that was sent the text of the run is left without completion
\* frame, the mapping of its device having been removed by the close of the connection it
\* had replaced
C39_TextWithoutCompletion ==
  \E c \in Conns, first \in Conns :
    /\ lastEvt # NoEvt /\ lastEvt.evt.stream = "lifecycle" /\ lastEvt.evt.phase = "end"
    /\ out = Quiet
    /\ lastEvt.evt.runId \in DOMAIN runBuffers
    /\ FramesOf(frameLog[c], "agentText", runBuffers[lastEvt.evt.runId]) # {}
    /\ FramesOf(frameLog[c], "agentDone", runBuffers[lastEvt.evt.runId]) = {}
    /\ readyState[c] = "OPEN"
    /\ deviceId[c] # Null /\ MapHas(clients, deviceId[c]) /\ clients[deviceId[c]] = c
    /\ first # c /\ deviceId[first] = deviceId[c] /\ readyState[first] = "CLOSED"
    /\ ~MapHas(deviceToSessions, deviceId[c])

\* ---- properties of the handling of a duplicate ---------------------------------------
\* C40: the handling of a message whose client key K was accepted less than one TTL
\* before writes exactly one frame, the ack with status "duplicate", on its connection,
\* and changes nothing else: the cache keeps K with the expiry of the accepted message,
\* the registry and the dispatches in flight stay as they are and no identifier is
\* drawn; so a message with K is accepted again exactly from one TTL after the accepted
\* message on, however many duplicates were handled in between.
C40_DuplicateOnlyAcks ==
  [][\A k \in ClientKeys :
       /\ (HandledKey(k) /\ WithinTtl(k)) =>
            /\ \E c \in Conns :
                 /\ out'[c] = <<AckFrame(k, "duplicate")>>
                 /\ \A b \in Conns \ {c} : out'[b] = <<>>
            /\ NoOtherEffect
            /\ MapHas(recentKeys', k) /\ recentKeys'[k] = acceptedAt[k] + IDEMPOTENCY_TTL_MS
       /\ (HandledKey(k) /\ acceptedAt[k] # -1 /\ ~WithinTtl(k)) =>
            /\ now >= acceptedAt[k] + IDEMPOTENCY_TTL_MS
            /\ AckFrame(k, "started") \in Written(out')
            /\ dispatchCount'[k] = dispatchCount[k] + 1
            /\ acceptedAt'[k] = now
    ]_vars

\* the second duplicate of a key has just been acknowledged in the last time unit of the
\* TTL: the key was dispatched once and still has the expiry of the accepted message
C40_Witness ==
  \E k \in ClientKeys :
    /\ lastValid.n = 3 /\ lastValid.key = k
    /\ dispatchCount[k] = 1
    /\ Written(out) = {AckFrame(k, "duplicate")}
    /\ now = acceptedAt[k] + IDEMPOTENCY_TTL_MS - 1
    /\ MapHas(recentKeys, k) /\ recentKeys[k] = acceptedAt[k] + IDEMPOTENCY_TTL_MS

====
